---- MODULE Spec2Model ----
(***************************************************************************)
(* Model of the core of pro_coinbase_bot:                                  *)
(*   - LongOnlySMAStrategy.simulate_symbol (strategy.py), the bar-by-bar   *)
(*     long-only simulator with stop-loss / take-profit brackets;          *)
(*   - RiskManager.check_daily_loss_cap and RiskManager.check_drawdown     *)
(*     (risk.py), the two risk predicates;                                 *)
(*   - RiskManager.correlation_based_weights (risk.py), the weighting;     *)
(*   - Backtester.run (backtest.py), one step over several symbols;        *)
(*   - infer_trades_from_position, max_drawdown_from_equity and            *)
(*     compute_stats (backtesting/stats.py), the statistics;               *)
(*   - build_args (scripts/tradingview_gateway.py), the alert gateway;     *)
(*   - with_retries (cli.py), the retry loop;                              *)
(*   - cmd_live (cli.py), the live loop and its halt on the risk flags.    *)
(* Python floats are modelled as exact rationals <<numerator, denominator>>*)
(* with a positive denominator, in lowest terms; NaN is <<0, 0>>.          *)
(***************************************************************************)
EXTENDS Integers, Sequences, FiniteSets, TLC

(***************************************************************************)
(* Float arithmetic                                                        *)
(***************************************************************************)
Abs(x) == IF x < 0 THEN -x ELSE x

RECURSIVE GCD(_, _)
GCD(a, b) == IF b = 0 THEN a ELSE GCD(b, a % b)

\* The rational n/d (d # 0) in lowest terms with a positive denominator.
Rat(n, d) ==
    LET s == IF d < 0 THEN -1 ELSE 1
        g == GCD(Abs(n), Abs(d))
    IN  << (s * n) \div g, (s * d) \div g >>

\* float(k) of an integer k.
F(k) == << k, 1 >>

NaN == << 0, 0 >>
IsNaN(x) == x[2] = 0

\* pd.NA, the missing value of the "entry" column, and None.
NA == << 1, 0 >>
None == << 2, 0 >>

FAdd(a, b) == IF IsNaN(a) \/ IsNaN(b) THEN NaN ELSE Rat(a[1] * b[2] + b[1] * a[2], a[2] * b[2])
FSub(a, b) == IF IsNaN(a) \/ IsNaN(b) THEN NaN ELSE Rat(a[1] * b[2] - b[1] * a[2], a[2] * b[2])
FMul(a, b) == IF IsNaN(a) \/ IsNaN(b) THEN NaN ELSE Rat(a[1] * b[1], a[2] * b[2])
\* a / b for b # 0 (every division of the modelled code is guarded).
FDiv(a, b) == IF IsNaN(a) \/ IsNaN(b) THEN NaN ELSE Rat(a[1] * b[2], a[2] * b[1])
FNeg(a) == IF IsNaN(a) THEN NaN ELSE << -a[1], a[2] >>
FAbs(a) == IF IsNaN(a) THEN NaN ELSE << Abs(a[1]), a[2] >>

\* Comparisons: any comparison with NaN is False.
FLt(a, b) == ~IsNaN(a) /\ ~IsNaN(b) /\ a[1] * b[2] < b[1] * a[2]
FLe(a, b) == ~IsNaN(a) /\ ~IsNaN(b) /\ a[1] * b[2] <= b[1] * a[2]
FGt(a, b) == FLt(b, a)
FGe(a, b) == FLe(b, a)
\* Python's max(a, b): b if b > a else a.
FMax(a, b) == IF FGt(b, a) THEN b ELSE a

(***************************************************************************)
(* Bounds and input domains                                                *)
(***************************************************************************)
\* Number of bars of the price panel that are simulated.
MaxBars == 5

\* Close prices of the bars.
Closes == {-1, 0, 3, 4, 5, 6}
\* low = close - offset and high = close + offset, or both missing (NaN).
LowOffsets == {0, 2}
HighOffsets == {0, 2}

\* StrategyConfig values (strategy.py:8-13): (fast_sma, slow_sma) pairs, the
\* stop-loss and the take-profit fractions.
Windows == {<< 2, 3 >>, << 2, 4 >>, << 3, 4 >>}
Configs ==
    {[fast_sma |-> w[1], slow_sma |-> w[2], stop_loss_pct |-> Rat(1, 4), take_profit_pct |-> tp] :
        w \in Windows, tp \in {F(1)}}

\* (equity, position_size) arguments of simulate_symbol.
Equities == {F(0), F(10000)}
PositionSizes == {Rat(1, 2)}

(***************************************************************************)
(* State                                                                   *)
(***************************************************************************)
VARIABLES
    cfg,            \* self.cfg of the strategy
    position_size,  \* argument of simulate_symbol
    equity,         \* argument of simulate_symbol
    data,           \* rows 1..i of the data frame (row k is iloc[k-1])
    row,            \* the bar read by the last iteration (open/high/low/close)
    in_pos,         \* local in_pos
    entry_price,    \* local entry_price (None when flat)
    qty             \* local qty

simVars == << cfg, position_size, equity, data, row, in_pos, entry_price, qty >>

VARIABLES
    rcfg,           \* self.cfg of the RiskManager
    equity_curve,   \* the equity curve the caller has observed so far
    dd_scan,        \* check_drawdown(equity_curve): the value returned and the
                    \* number of curve points the loop had read when it returned
    daily_pnl,      \* the argument of the last check_daily_loss_cap call
    stop_daily      \* the value that call returned

riskVars == << rcfg, equity_curve, dd_scan, daily_pnl, stop_daily >>

VARIABLES
    prices,         \* the argument of correlation_based_weights: symbol -> series
    fill_pad,       \* whether DataFrame.pct_change forward-fills missing prices
                    \* first (its default before pandas 3) or not
    weights         \* the mapping correlation_based_weights returned

weightVars == << prices, fill_pad, weights >>

VARIABLES
    price_dfs,      \* the argument of Backtester.run: the panels, in dict order
    pc,             \* where run is: "idle", "loop", "simulate", "done", "raised"
    sym_idx,        \* position in price_dfs of the symbol the for loop is at
    results,        \* the dict run fills and returns
    run_equity,     \* the local `equity` of run
    simulated       \* the symbols simulate_symbol was called for

runVars == << price_dfs, pc, sym_idx, results, run_equity, simulated >>

VARIABLES
    df,             \* the frame handed to infer_trades_from_position, row by row
    trades,         \* the list `trades` of infer_trades_from_position
    in_trade,       \* its local in_trade
    entry_idx,      \* its local entry_idx
    stats           \* what compute_stats returns for df

tradeVars == << df, trades, in_trade, entry_idx, stats >>

VARIABLES
    frame,            \* the rows (ts, position, pnl) of the series given to compute_stats
    start_equity,     \* its start_equity argument
    periods_per_year, \* its periods_per_year argument
    reports           \* what compute_stats does with the series, for each form
                      \* the series can be handed over in

statVars == << frame, start_equity, periods_per_year, reports >>

VARIABLES
    alert,          \* the payload handed to build_args
    args            \* the command line build_args returned, << >> before the call

gatewayVars == << alert, args >>

VARIABLES
    retries,        \* the retries argument of with_retries
    base_delay,     \* its base_delay argument
    attempt,        \* the loop variable: the attempts made so far
    last_exc,       \* its local last_exc
    outcomes,       \* what each call of fn did, in order
    sleeps,         \* the arguments of the time.sleep calls, in order
    status          \* "idle", "loop", "returned", "raised" (an exception of fn
                    \* left with_retries) or "RetryError"

retryVars == << retries, base_delay, attempt, last_exc, outcomes, sleeps, status >>

VARIABLES
    live_max_iters,      \* the local max_iters of cmd_live
    live_i,         \* the iterations of its for loop made so far
    live_daily_pnl, \* its local daily_pnl
    step_pnls,      \* the step_pnl of each iteration, in order
    live_pc         \* "idle", "loop", "halted" (the break) or "completed"

liveVars == << live_max_iters, live_i, live_daily_pnl, step_pnls, live_pc >>

vars == << simVars, riskVars, weightVars, runVars, tradeVars, statVars, gatewayVars,
           retryVars, liveVars >>

(***************************************************************************)
(* RiskManager (risk.py)                                                   *)
(***************************************************************************)
\* Length of the equity curve handed to check_drawdown.
MaxCurve == 4

\* RiskConfig values (risk.py:8-11).
RiskConfigs ==
    [usd_daily_loss_cap : {F(500), F(-500)}, max_drawdown_pct : {Rat(3, 100), Rat(1, 2)}]

\* Equity values of the curve and daily pnl values.
EquityValues == {F(-50), F(0), F(50), F(97), F(100)}
PnlValues == {F(-501), F(-500), F(-499), F(0), F(500)}

\* Mutant of check_daily_loss_cap: the boundary is excluded.
check_daily_loss_cap_Strict(c, pnl) == FLt(pnl, FNeg(FAbs(c.usd_daily_loss_cap)))

\* check_daily_loss_cap(daily_pnl).
check_daily_loss_cap(c, pnl) == FLe(pnl, FNeg(FAbs(c.usd_daily_loss_cap)))

RECURSIVE DrawdownLoop_Strict(_, _, _, _, _)
\* Mutant of DrawdownLoop: a drawdown equal to the cap is not a breach.
DrawdownLoop_Strict(c, curve, k, peak, max_dd) ==
    IF k > Len(curve) THEN [ret |-> FALSE, read |-> Len(curve)]
    ELSE LET v == curve[k]
             peak2 == FMax(peak, v)
             dd == IF FGt(peak2, F(0)) THEN FDiv(FSub(peak2, v), peak2) ELSE F(0)
             max_dd2 == FMax(max_dd, dd)
         IN  IF FGt(max_dd2, c.max_drawdown_pct)
             THEN [ret |-> TRUE, read |-> k]
             ELSE DrawdownLoop_Strict(c, curve, k + 1, peak2, max_dd2)

RECURSIVE FinalPeak(_, _)
\* The running peak after the first k points of curve.
FinalPeak(curve, k) == IF k = 1 THEN curve[1] ELSE FMax(FinalPeak(curve, k - 1), curve[k])

\* Mutant of check_drawdown: the breach is judged on the drawdown of the last
\* point alone, so a recovery clears it.
check_drawdown_CurrentOnly(c, curve) ==
    IF curve = << >> THEN [ret |-> FALSE, read |-> 0]
    ELSE LET peak == FinalPeak(curve, Len(curve))
             v == curve[Len(curve)]
             dd == IF FGt(peak, F(0)) THEN FDiv(FSub(peak, v), peak) ELSE F(0)
         IN  [ret |-> FGe(dd, c.max_drawdown_pct), read |-> Len(curve)]

RECURSIVE DrawdownLoop(_, _, _, _, _)
\* The for loop of check_drawdown, about to read curve[k] (1-based) with the
\* locals peak and max_dd: the value returned, and the number of points read.
DrawdownLoop(c, curve, k, peak, max_dd) ==
    IF k > Len(curve) THEN [ret |-> FALSE, read |-> Len(curve)]
    ELSE LET v == curve[k]
             peak2 == FMax(peak, v)
             dd == IF FGt(peak2, F(0)) THEN FDiv(FSub(peak2, v), peak2) ELSE F(0)
             max_dd2 == FMax(max_dd, dd)
         IN  IF FGe(max_dd2, c.max_drawdown_pct)
             THEN [ret |-> TRUE, read |-> k]
             ELSE DrawdownLoop(c, curve, k + 1, peak2, max_dd2)

\* check_drawdown(equity_curve).
check_drawdown(c, curve) ==
    IF curve = << >> THEN [ret |-> FALSE, read |-> 0]
    ELSE DrawdownLoop(c, curve, 1, curve[1], F(0))

\* The risk manager before any call.
RiskIdle ==
    /\ equity_curve = << >>
    /\ dd_scan = [ret |-> FALSE, read |-> 0]
    /\ daily_pnl = F(0)
    /\ stop_daily = FALSE

RiskInit ==
    /\ rcfg \in RiskConfigs
    /\ RiskIdle

\* The caller records one more equity value and asks check_drawdown.
ObserveEquity(v) ==
    /\ Len(equity_curve) < MaxCurve
    /\ equity_curve' = Append(equity_curve, v)
    /\ dd_scan' = check_drawdown(rcfg, equity_curve')
    /\ UNCHANGED << rcfg, daily_pnl, stop_daily >>

\* The caller asks check_daily_loss_cap about a daily pnl.
CheckDailyLoss(pnl) ==
    /\ daily_pnl' = pnl
    /\ stop_daily' = check_daily_loss_cap(rcfg, pnl)
    /\ UNCHANGED << rcfg, equity_curve, dd_scan >>

(***************************************************************************)
(* LongOnlySMAStrategy (strategy.py)                                       *)
(***************************************************************************)
RECURSIVE SumLast(_, _)
\* Sum of the last w elements of the integer sequence s (Len(s) >= w).
SumLast(s, w) == IF w = 0 THEN 0 ELSE s[Len(s)] + SumLast(SubSeq(s, 1, Len(s) - 1), w - 1)

\* closes.rolling(window, min_periods=window).mean() at the last row of closes.
RollingMean(closes, window) ==
    IF Len(closes) < window THEN NaN ELSE Rat(SumLast(closes, window), window)

\* Mutant of Indicators: the signal written with negated comparisons, which an
\* undefined (NaN) average satisfies.
Indicators_NegatedCompare(closes, c) ==
    LET fast == RollingMean(closes, c.fast_sma)
        slow == RollingMean(closes, c.slow_sma)
        close == F(closes[Len(closes)])
    IN  [sma_fast |-> fast, sma_slow |-> slow,
         signal |-> ~FLe(close, fast) /\ ~FLe(fast, slow)]

\* indicators(): the sma_fast, sma_slow and signal of the last row of closes.
Indicators(closes, c) ==
    LET fast == RollingMean(closes, c.fast_sma)
        slow == RollingMean(closes, c.slow_sma)
        close == F(closes[Len(closes)])
    IN  [sma_fast |-> fast, sma_slow |-> slow,
         signal |-> FGt(close, fast) /\ FGt(fast, slow)]

\* The closes of the rows read so far.
ClosesOf(d) == [k \in 1..Len(d) |-> d[k].close]

\* Mutant of EntryAllowed: a zero allocation is accepted.
EntryAllowed_ZeroAlloc(signal, alloc_cash, price) ==
    signal /\ FGe(alloc_cash, F(0)) /\ FGt(price, F(0))

\* The entry decision of a bar while flat.
EntryAllowed(signal, alloc_cash, price) ==
    signal /\ FGt(alloc_cash, F(0)) /\ FGt(price, F(0))

\* Mutant of ExitPrice: the take-profit is tested before the stop-loss.
ExitPrice_TakeProfitFirst(c, entry, low, high, price, signal) ==
    LET stop == FMul(entry, FSub(F(1), c.stop_loss_pct))
        tp == FMul(entry, FAdd(F(1), c.take_profit_pct))
    IN  IF FGe(high, tp) THEN tp
        ELSE IF FLe(low, stop) THEN stop
        ELSE IF ~signal THEN price
        ELSE None

\* The exit decision of a bar while in position: the exit price, or None.
ExitPrice(c, entry, low, high, price, signal) ==
    LET stop == FMul(entry, FSub(F(1), c.stop_loss_pct))
        tp == FMul(entry, FAdd(F(1), c.take_profit_pct))
    IN  IF FLe(low, stop) THEN stop
        ELSE IF FGe(high, tp) THEN tp
        ELSE IF ~signal THEN price
        ELSE None

\* The realized pnl of an exit and the mark-to-market pnl of a held bar.
RealizedPnl(exit_price) == FMul(FSub(exit_price, entry_price), qty)
\* Mutant of MarkToMarket: the increment since the previous bar's close.
MarkToMarket_Incremental(price) == FMul(FSub(price, F(data[Len(data)].close)), qty)
MarkToMarket(price) == FMul(FSub(price, entry_price), qty)

\* The row of bar `bar` with the columns simulate_symbol adds, at their defaults.
NewRow(bar, ind) ==
    [close |-> bar.close, sma_fast |-> ind.sma_fast, sma_slow |-> ind.sma_slow,
     signal |-> ind.signal, pos |-> 0, entry |-> NA, pnl |-> F(0)]

\* The row as written on entry, on exit and while holding.
EntryRow(r, price) == [r EXCEPT !.pos = 1, !.entry = price]
\* Mutant of ExitRow: the exit bar is still marked as in position.
ExitRow_MarkedLong(r, pnl) == [r EXCEPT !.pnl = pnl, !.pos = 1]
ExitRow(r, pnl) == [r EXCEPT !.pnl = pnl]
\* Mutant of HoldRow: the position column is accumulated on every held bar.
HoldRow_Accumulate(r, mtm) ==
    [r EXCEPT !.pnl = mtm, !.pos = data[Len(data)].pos + 1, !.entry = entry_price]
HoldRow(r, mtm) == [r EXCEPT !.pnl = mtm, !.pos = 1, !.entry = entry_price]

\* The bars of the price panel.  The low and the high of a bar are read only
\* while in position (strategy.py:80-81), so the bars drawn while flat are
\* those of FlatBars, whose low and high are missing.
FlatBars == {[close |-> c, low |-> NaN, high |-> NaN] : c \in Closes}
Bars ==
    {[close |-> c, low |-> F(c - lo), high |-> F(c + hi)] :
        c \in Closes, lo \in LowOffsets, hi \in HighOffsets}
    \cup FlatBars

\* The simulator at the start of the loop of simulate_symbol.
SimIdle ==
    /\ data = << >>
    /\ row = [close |-> 0, low |-> NaN, high |-> NaN]
    /\ in_pos = FALSE
    /\ entry_price = None
    /\ qty = F(0)

SimInit ==
    /\ cfg \in Configs
    /\ position_size \in PositionSizes
    /\ equity \in Equities
    /\ SimIdle

\* One iteration of the loop with in_pos False (strategy.py:64-74).
FlatBar(bar) ==
    /\ Len(data) < MaxBars
    /\ ~in_pos
    /\ LET ind == Indicators(Append(ClosesOf(data), bar.close), cfg)
           price == F(bar.close)
           alloc_cash == FMul(equity, position_size)
           r == NewRow(bar, ind)
       IN  IF EntryAllowed(ind.signal, alloc_cash, price)
           THEN /\ qty' = FDiv(alloc_cash, price)
                /\ entry_price' = price
                /\ in_pos' = TRUE
                /\ data' = Append(data, EntryRow(r, price))
           ELSE /\ data' = Append(data, r)
                /\ UNCHANGED << qty, entry_price, in_pos >>
    /\ row' = bar
    /\ UNCHANGED << cfg, position_size, equity >>

\* Mutant of LongBar: after an exit the entry test runs on the same bar.
LongBar_ReenterSameBar(bar) ==
    /\ Len(data) < MaxBars
    /\ in_pos
    /\ LET ind == Indicators(Append(ClosesOf(data), bar.close), cfg)
           price == F(bar.close)
           low == IF ~IsNaN(bar.low) THEN bar.low ELSE price
           high == IF ~IsNaN(bar.high) THEN bar.high ELSE price
           exit_price == ExitPrice(cfg, entry_price, low, high, price, ind.signal)
           alloc_cash == FMul(equity, position_size)
           r == NewRow(bar, ind)
       IN  IF exit_price # None
           THEN IF EntryAllowed(ind.signal, alloc_cash, price)
                THEN /\ data' = Append(data,
                            EntryRow(ExitRow(r, RealizedPnl(exit_price)), price))
                     /\ in_pos' = TRUE
                     /\ entry_price' = price
                     /\ qty' = FDiv(alloc_cash, price)
                ELSE /\ data' = Append(data, ExitRow(r, RealizedPnl(exit_price)))
                     /\ in_pos' = FALSE
                     /\ entry_price' = None
                     /\ qty' = F(0)
           ELSE /\ data' = Append(data, HoldRow(r, MarkToMarket(price)))
                /\ UNCHANGED << in_pos, entry_price, qty >>
    /\ row' = bar
    /\ UNCHANGED << cfg, position_size, equity >>

\* One iteration of the loop with in_pos True (strategy.py:75-101).
LongBar(bar) ==
    /\ Len(data) < MaxBars
    /\ in_pos
    /\ LET ind == Indicators(Append(ClosesOf(data), bar.close), cfg)
           price == F(bar.close)
           low == IF ~IsNaN(bar.low) THEN bar.low ELSE price
           high == IF ~IsNaN(bar.high) THEN bar.high ELSE price
           exit_price == ExitPrice(cfg, entry_price, low, high, price, ind.signal)
           r == NewRow(bar, ind)
       IN  IF exit_price # None
           THEN /\ data' = Append(data, ExitRow(r, RealizedPnl(exit_price)))
                /\ in_pos' = FALSE
                /\ entry_price' = None
                /\ qty' = F(0)
           ELSE /\ data' = Append(data, HoldRow(r, MarkToMarket(price)))
                /\ UNCHANGED << in_pos, entry_price, qty >>
    /\ row' = bar
    /\ UNCHANGED << cfg, position_size, equity >>

(***************************************************************************)
(* RiskManager.correlation_based_weights (risk.py)                         *)
(***************************************************************************)
\* Number of index labels a price series may carry.
MaxRows == 3
\* Pearson's r is irrational in general: its magnitude is rounded down to a
\* multiple of 1/CorrGrid (an exact +-1 stays exact).
CorrGrid == 10

\* The symbols, in the order they are inserted in the mapping, and the prices.
WSymbols == << "A", "B", "C" >>
PriceValues == {1, 2}

\* +inf, the float 1.0/0.0 of a pandas division.
PosInf == << 3, 0 >>

\* A price series: index label -> price, NaN where the series has no label.
\* A series carries the labels 1..n (n >= 0), as the closes Backtester.run
\* passes after reset_index(drop=True), or the last label only (a series that
\* shares no label with a shorter one).
SeriesSet ==
    {s \in [1..MaxRows -> {F(v) : v \in PriceValues} \cup {NaN}] :
        \/ \A i \in 2..MaxRows : ~IsNaN(s[i]) => ~IsNaN(s[i - 1])
        \/ \A i \in 1..MaxRows : ~IsNaN(s[i]) <=> i = MaxRows}

\* The mapping with no key.
EmptyMap == [k \in {} |-> NaN]

RECURSIVE SortedSeq(_)
\* The elements of a set of integers in increasing order.
SortedSeq(S) ==
    IF S = {} THEN << >>
    ELSE LET m == CHOOSE x \in S : \A y \in S : x <= y
         IN  << m >> \o SortedSeq(S \ {m})

\* pd.DataFrame(prices): the union of the series' labels, in order, and the
\* column of symbol k over it.
PriceAt(p, k, i) == IF i \in DOMAIN p[k] THEN p[k][i] ELSE NaN
FrameIndex(p) ==
    SortedSeq({i \in UNION {DOMAIN p[k] : k \in DOMAIN p} :
                  \E k \in DOMAIN p : ~IsNaN(PriceAt(p, k, i))})
FrameColumn(p, k) ==
    LET idx == FrameIndex(p) IN [j \in 1..Len(idx) |-> PriceAt(p, k, idx[j])]

RECURSIVE FFill(_, _)
\* Forward fill of rows 1..j of a column (leading NaN stay).
FFill(col, j) ==
    IF j = 0 THEN << >>
    ELSE LET before == FFill(col, j - 1)
         IN  Append(before,
                    IF ~IsNaN(col[j]) \/ j = 1 THEN col[j] ELSE before[j - 1])

\* Series.pct_change(): p[j]/p[j-1] - 1, NaN on the first row.
PctChange(col, pad) ==
    LET c == IF pad THEN FFill(col, Len(col)) ELSE col
    IN  [j \in 1..Len(col) |->
            IF j = 1 THEN NaN ELSE FSub(FDiv(c[j], c[j - 1]), F(1))]

\* df.pct_change().dropna(how="any"): per symbol, the returns of the rows on
\* which every symbol has a return.
Returns(p, pad) ==
    LET pct == [k \in DOMAIN p |-> PctChange(FrameColumn(p, k), pad)]
        keep == SortedSeq({j \in 1..Len(FrameIndex(p)) :
                              \A k \in DOMAIN p : ~IsNaN(pct[k][j])})
    IN  [k \in DOMAIN p |-> [j \in 1..Len(keep) |-> pct[k][keep[j]]]]

\* rets.empty
ReturnsEmpty(r) == \A k \in DOMAIN r : Len(r[k]) = 0

\* floor(sqrt(n)) for 0 <= n <= CorrGrid^2.
ISqrt(n) == CHOOSE r \in 0..CorrGrid : r * r <= n /\ n < (r + 1) * (r + 1)

RECURSIVE CommonDen(_, _)
\* A common denominator of x[1..n].
CommonDen(x, n) ==
    IF n = 0 THEN 1
    ELSE LET d == CommonDen(x, n - 1) IN (d * x[n][2]) \div GCD(d, x[n][2])

RECURSIVE ISum(_, _)
\* x[1] + ... + x[n] of integers.
ISum(x, n) == IF n = 0 THEN 0 ELSE ISum(x, n - 1) + x[n]

\* Pearson's correlation of two return columns (DataFrame.corr): NaN when a
\* column has no variance or fewer than two rows.  r does not change when a
\* column is scaled, so the sums are taken on the columns scaled to integers.
Pearson(x, y) ==
    LET n == Len(x)
        dx == CommonDen(x, n)
        dy == CommonDen(y, n)
        xi == [j \in 1..n |-> x[j][1] * (dx \div x[j][2])]
        yi == [j \in 1..n |-> y[j][1] * (dy \div y[j][2])]
        sx == ISum(xi, n)
        sy == ISum(yi, n)
        sxx == n * ISum([j \in 1..n |-> xi[j] * xi[j]], n) - sx * sx
        syy == n * ISum([j \in 1..n |-> yi[j] * yi[j]], n) - sy * sy
        sxy == n * ISum([j \in 1..n |-> xi[j] * yi[j]], n) - sx * sy
    IN  IF n = 0 \/ sxx = 0 \/ syy = 0 THEN NaN
        ELSE LET r2 == Rat(sxy * sxy, sxx * syy)
                 mag == Rat(ISqrt((r2[1] * CorrGrid * CorrGrid) \div r2[2]), CorrGrid)
             IN  IF sxy < 0 THEN FNeg(mag) ELSE mag

\* rets.corr().fillna(0.0).abs(): the matrix is symmetric, one entry per
\* unordered pair of columns.
AbsCorr(r) ==
    [pr \in {{k, j} : k, j \in DOMAIN r} |->
        LET k == CHOOSE x \in pr : TRUE
            j == IF pr = {k} THEN k ELSE CHOOSE x \in pr : x # k
            c == Pearson(r[k], r[j])
        IN  IF IsNaN(c) THEN F(0) ELSE FAbs(c)]

\* 1.0 / x of a pandas Series: +inf at 0.
Reciprocal(x) == IF x = F(0) THEN PosInf ELSE FDiv(F(1), x)
\* x.clip(lower=0.0)
ClipLower0(x) == IF x = PosInf THEN PosInf ELSE FMax(x, F(0))
\* a + b and a / b with +inf: inf/inf is NaN, finite/inf is 0.
XAdd(a, b) == IF a = PosInf \/ b = PosInf THEN PosInf ELSE FAdd(a, b)
XDiv(a, b) ==
    IF b = PosInf THEN (IF a = PosInf THEN NaN ELSE F(0))
    ELSE IF a = PosInf THEN PosInf
    ELSE FDiv(a, b)

RECURSIVE XSum(_, _)
\* The sum of f over the keys of the set S.
XSum(f, S) ==
    IF S = {} THEN F(0)
    ELSE LET k == CHOOSE x \in S : TRUE
         IN  XAdd(f[k], XSum(f, S \ {k}))

\* corr.abs().sum(axis=1) - 1.0 of the row of symbol k
Penalty(corr, S, k) ==
    FSub(XSum([j \in S |-> corr[{k, j}]], S), F(1))

\* raw = (1.0 / (1.0 + penalty)).clip(lower=0.0)
RawWeights(r) ==
    LET corr == AbsCorr(r)
    IN  [k \in DOMAIN r |->
            ClipLower0(Reciprocal(FAdd(F(1), Penalty(corr, DOMAIN r, k))))]

\* The equal-weight fallback.
EqualWeights(p) == [k \in DOMAIN p |-> Rat(1, Cardinality(DOMAIN p))]

\* correlation_based_weights without the `if rets.empty` fallback.
correlation_based_weights_NoEmptyFallback(p, pad) ==
    IF Cardinality(DOMAIN p) = 0 THEN EmptyMap
    ELSE IF Cardinality(DOMAIN p) = 1 THEN [k \in DOMAIN p |-> F(1)]
    ELSE LET raw == RawWeights(Returns(p, pad))
             s == XSum(raw, DOMAIN raw)
         IN  IF s # PosInf /\ FLe(s, F(0)) THEN EqualWeights(p)
             ELSE [k \in DOMAIN p |-> XDiv(raw[k], s)]

\* correlation_based_weights(prices)
correlation_based_weights(p, pad) ==
    IF Cardinality(DOMAIN p) = 0 THEN EmptyMap
    ELSE IF Cardinality(DOMAIN p) = 1 THEN [k \in DOMAIN p |-> F(1)]
    ELSE LET rets == Returns(p, pad)
         IN  IF ReturnsEmpty(rets) THEN EqualWeights(p)
             ELSE LET raw == RawWeights(rets)
                      s == XSum(raw, DOMAIN raw)
                  IN  IF s # PosInf /\ FLe(s, F(0)) THEN EqualWeights(p)
                      ELSE [k \in DOMAIN p |-> XDiv(raw[k], s)]

\* The weighting before any call.
WeightsIdle ==
    /\ prices = EmptyMap
    /\ weights = EmptyMap

WeightsInit ==
    /\ fill_pad \in BOOLEAN
    /\ WeightsIdle

\* A call of correlation_based_weights with one more symbol in the mapping.
CallWeights(series) ==
    /\ Cardinality(DOMAIN prices) < Len(WSymbols)
    /\ LET sym == WSymbols[Cardinality(DOMAIN prices) + 1]
           arg == [k \in DOMAIN prices \cup {sym} |->
                      IF k = sym THEN series ELSE prices[k]]
       IN  /\ prices' = arg
           /\ weights' = correlation_based_weights(arg, fill_pad)
    /\ UNCHANGED fill_pad

(***************************************************************************)
(* Backtester.run (backtest.py)                                            *)
(***************************************************************************)
\* Number of symbols of the price_dfs argument.
MaxPanels == 2

\* The keys of price_dfs, in insertion order.
RunSymbols == << "A", "B", "C" >>

\* The close columns of the panels handed to run.
PanelCloses ==
    {<< >>, << 4 >>, << 4, 4, 4, 4 >>, << 4, 4, 6 >>, << 4, 4, 6, 4 >>,
     << 4, 4, 6, 7 >>, << 6, 4, 4, 6 >>, << 4, 6, 4, 6 >>}

\* A panel: its close column, and whether it has the low and high columns
\* (then low = high = close).
Panels == [closes : PanelCloses, has_low_high : BOOLEAN]

\* RiskConfig values of the Backtester.
RunRiskConfigs ==
    [usd_daily_loss_cap : {F(500)}, max_drawdown_pct : {Rat(3, 100), F(0)}]

\* The bar i of a panel as simulate_symbol reads it.
BarOf(panel, i) ==
    [close |-> panel.closes[i],
     low |-> IF panel.has_low_high THEN F(panel.closes[i]) ELSE NaN,
     high |-> IF panel.has_low_high THEN F(panel.closes[i]) ELSE NaN]

\* The symbol and the panel the for loop is at.
Sym == RunSymbols[sym_idx]
Panel == price_dfs[sym_idx]

\* Mutant of ClosesArg: the empty panels are kept, each as an empty series.
ClosesArg_KeepEmpty(dfs) ==
    [k \in {RunSymbols[i] : i \in 1..Len(dfs)} |->
        LET i == CHOOSE j \in 1..Len(dfs) : RunSymbols[j] = k
        IN  [r \in 1..Len(dfs[i].closes) |-> F(dfs[i].closes[r])]]

\* closes (backtest.py:25-27): the close series of the non-empty panels, each
\* with the labels 1..len of reset_index(drop=True).
ClosesArg(dfs) ==
    [k \in {RunSymbols[i] : i \in {j \in 1..Len(dfs) : dfs[j].closes # << >>}} |->
        LET i == CHOOSE j \in 1..Len(dfs) : RunSymbols[j] = k
        IN  [r \in 1..Len(dfs[i].closes) |-> F(dfs[i].closes[r])]]

\* weights.get(sym, 0.0)
WeightOf(w, sym) == IF sym \in DOMAIN w THEN w[sym] ELSE F(0)

\* d[key] = value
DictSet(d, key, value) ==
    [k \in DOMAIN d \cup {key} |-> IF k = key THEN value ELSE d[k]]

\* Mutant of Flag: the two values are swapped.
Flag_Swapped(b) == IF b THEN F(0) ELSE F(1)

\* 1.0 if flag else 0.0
Flag(b) == IF b THEN F(1) ELSE F(0)

\* The Backtester before run is called.
RunIdle ==
    /\ price_dfs = << >>
    /\ pc = "idle"
    /\ sym_idx = 0
    /\ results = EmptyMap
    /\ run_equity = F(0)
    /\ simulated = {}

\* The caller puts one more panel in price_dfs.
AddPanel(panel) ==
    /\ pc = "idle"
    /\ Len(price_dfs) < MaxPanels
    /\ price_dfs' = Append(price_dfs, panel)
    /\ UNCHANGED << pc, sym_idx, results, run_equity, simulated >>
    /\ UNCHANGED << simVars, riskVars, weightVars >>

\* run up to the for loop (backtest.py:25-32).
RunStart ==
    /\ pc = "idle"
    /\ prices' = ClosesArg(price_dfs)
    /\ weights' = correlation_based_weights(ClosesArg(price_dfs), fill_pad)
    /\ run_equity' = F(10000)
    /\ daily_pnl' = F(0)
    /\ equity_curve' = << >>
    /\ results' = EmptyMap
    /\ sym_idx' = 1
    /\ pc' = "loop"
    /\ UNCHANGED << price_dfs, simulated, fill_pad >>
    /\ UNCHANGED << rcfg, dd_scan, stop_daily >>
    /\ UNCHANGED simVars

\* An iteration of the for loop that skips the symbol (backtest.py:34-37).
SkipSymbol ==
    /\ pc = "loop"
    /\ sym_idx <= Len(price_dfs)
    /\ FLe(WeightOf(weights, Sym), F(0))
    /\ results' = DictSet(results, Sym, F(0))
    /\ sym_idx' = sym_idx + 1
    /\ UNCHANGED << price_dfs, pc, run_equity, simulated >>
    /\ UNCHANGED << simVars, riskVars, weightVars >>

\* Mutant of CallSimulate: the symbol is sized against the equity that
\* includes the pnl of the symbols before it.
CallSimulate_RunningEquity ==
    /\ pc = "loop"
    /\ sym_idx <= Len(price_dfs)
    /\ ~FLe(WeightOf(weights, Sym), F(0))
    /\ position_size' = WeightOf(weights, Sym)
    /\ equity' = FAdd(run_equity, daily_pnl)
    /\ data' = << >>
    /\ row' = [close |-> 0, low |-> NaN, high |-> NaN]
    /\ in_pos' = FALSE
    /\ entry_price' = None
    /\ qty' = F(0)
    /\ simulated' = simulated \cup {Sym}
    /\ pc' = "simulate"
    /\ UNCHANGED << cfg, price_dfs, sym_idx, results, run_equity >>
    /\ UNCHANGED << riskVars, weightVars >>

\* The call of simulate_symbol (backtest.py:38-40) up to its loop.
CallSimulate ==
    /\ pc = "loop"
    /\ sym_idx <= Len(price_dfs)
    /\ ~FLe(WeightOf(weights, Sym), F(0))
    /\ position_size' = WeightOf(weights, Sym)
    /\ equity' = run_equity
    /\ data' = << >>
    /\ row' = [close |-> 0, low |-> NaN, high |-> NaN]
    /\ in_pos' = FALSE
    /\ entry_price' = None
    /\ qty' = F(0)
    /\ simulated' = simulated \cup {Sym}
    /\ pc' = "simulate"
    /\ UNCHANGED << cfg, price_dfs, sym_idx, results, run_equity >>
    /\ UNCHANGED << riskVars, weightVars >>

\* One iteration of the loop of simulate_symbol on the panel of the symbol.
SimulateBar ==
    /\ pc = "simulate"
    /\ Len(data) < Len(Panel.closes)
    /\ \/ FlatBar(BarOf(Panel, Len(data) + 1))
       \/ Panel.has_low_high /\ LongBar(BarOf(Panel, Len(data) + 1))
    /\ UNCHANGED << riskVars, weightVars, runVars >>

\* row["low"] of a panel without that column (strategy.py:80): the KeyError
\* leaves simulate_symbol and run.
SimulateRaises ==
    /\ pc = "simulate"
    /\ Len(data) < Len(Panel.closes)
    /\ in_pos
    /\ ~Panel.has_low_high
    /\ pc' = "raised"
    /\ UNCHANGED << price_dfs, sym_idx, results, run_equity, simulated >>
    /\ UNCHANGED << simVars, riskVars, weightVars >>

\* Mutant of SimulateReturns: the equity is updated inside the loop, so the
\* next symbol is sized against the pnl of the symbols before it.
SimulateReturns_EquityInLoop ==
    /\ pc = "simulate"
    /\ Len(data) = Len(Panel.closes)
    /\ LET pnl == IF Len(data) > 0 THEN data[Len(data)].pnl ELSE F(0)
       IN  /\ results' = DictSet(results, Sym, pnl)
           /\ daily_pnl' = FAdd(daily_pnl, pnl)
           /\ run_equity' = FAdd(run_equity, pnl)
    /\ sym_idx' = sym_idx + 1
    /\ pc' = "loop"
    /\ UNCHANGED << price_dfs, simulated >>
    /\ UNCHANGED << rcfg, equity_curve, dd_scan, stop_daily >>
    /\ UNCHANGED << simVars, weightVars >>

\* simulate_symbol returns; the rest of the iteration (backtest.py:41-43).
SimulateReturns ==
    /\ pc = "simulate"
    /\ Len(data) = Len(Panel.closes)
    /\ LET pnl == IF Len(data) > 0 THEN data[Len(data)].pnl ELSE F(0)
       IN  /\ results' = DictSet(results, Sym, pnl)
           /\ daily_pnl' = FAdd(daily_pnl, pnl)
    /\ sym_idx' = sym_idx + 1
    /\ pc' = "loop"
    /\ UNCHANGED << price_dfs, run_equity, simulated >>
    /\ UNCHANGED << rcfg, equity_curve, dd_scan, stop_daily >>
    /\ UNCHANGED << simVars, weightVars >>

\* Mutant of RunReturns: the equity curve starts with the step's starting equity.
RunReturns_CurveFromStart ==
    /\ pc = "loop"
    /\ sym_idx > Len(price_dfs)
    /\ run_equity' = FAdd(run_equity, daily_pnl)
    /\ equity_curve' = << run_equity, run_equity' >>
    /\ stop_daily' = check_daily_loss_cap(rcfg, daily_pnl)
    /\ dd_scan' = check_drawdown(rcfg, equity_curve')
    /\ results' =
        DictSet(DictSet(DictSet(DictSet(results,
            "_stop_daily", Flag(stop_daily')),
            "_stop_dd", Flag(dd_scan'.ret)),
            "_equity", run_equity'),
            "_daily_pnl", daily_pnl)
    /\ pc' = "done"
    /\ UNCHANGED << price_dfs, sym_idx, simulated >>
    /\ UNCHANGED << rcfg, daily_pnl >>
    /\ UNCHANGED << simVars, weightVars >>

\* After the for loop (backtest.py:44-51).
RunReturns ==
    /\ pc = "loop"
    /\ sym_idx > Len(price_dfs)
    /\ run_equity' = FAdd(run_equity, daily_pnl)
    /\ equity_curve' = Append(equity_curve, run_equity')
    /\ stop_daily' = check_daily_loss_cap(rcfg, daily_pnl)
    /\ dd_scan' = check_drawdown(rcfg, equity_curve')
    /\ results' =
        DictSet(DictSet(DictSet(DictSet(results,
            "_stop_daily", Flag(stop_daily')),
            "_stop_dd", Flag(dd_scan'.ret)),
            "_equity", run_equity'),
            "_daily_pnl", daily_pnl)
    /\ pc' = "done"
    /\ UNCHANGED << price_dfs, sym_idx, simulated >>
    /\ UNCHANGED << rcfg, daily_pnl >>
    /\ UNCHANGED << simVars, weightVars >>

(***************************************************************************)
(* infer_trades_from_position (backtesting/stats.py)                       *)
(***************************************************************************)
\* Number of rows of the frame.
MaxTradeBars == 5

\* entry_idx = None
NoneIdx == -1

\* The position and pnl columns; NaN is a missing pnl.
PositionValues == {F(-1), F(0), F(1), F(2)}
BarPnlValues == {F(1), NaN}

\* The frame of test_compute_stats_basic (test_stats.py:8-12): position, and
\* pnl = np.diff(cum, prepend=0).
FixturePosition == << 0, 0, 1, 1, 1, 0, -1, -1, 0, 0 >>
FixtureCum == << 0, 0, 1, 2, 3, 3, 1, 2, 1, 1 >>
Fixture ==
    [i \in 1..Len(FixturePosition) |->
        [ts |-> i,
         position |-> F(FixturePosition[i]),
         pnl |-> F(FixtureCum[i] - (IF i = 1 THEN 0 ELSE FixtureCum[i - 1]))]]

\* x.fillna(0) and np.sign(x)
FillNa0(x) == IF IsNaN(x) THEN F(0) ELSE x
Sign(x) == IF x[1] > 0 THEN 1 ELSE IF x[1] < 0 THEN -1 ELSE 0

\* pos[i] and pnl[i] of the frame d, i counted from 0 as in the code.
PosAt(d, i) == FillNa0(d[i + 1].position)
PnlAt(d, i) == FillNa0(d[i + 1].pnl)

RECURSIVE PnlSum(_, _, _)
\* pnl[a : b + 1].sum()
PnlSum(d, a, b) == IF a > b THEN F(0) ELSE FAdd(PnlSum(d, a, b - 1), PnlAt(d, b))

\* Mutant of TradeLoopBody: the pnl of the entry bar is left out of the trade
\* (the slice pnl[ei + 1 : i + 1]).
TradeLoopBody_ExclusiveEntry(d, i, st) ==
    LET prev == PosAt(d, i - 1)
        curr == PosAt(d, i)
    IN  IF ~st.in_trade /\ prev = F(0) /\ curr # F(0)
        THEN [trades |-> st.trades, in_trade |-> TRUE, entry_idx |-> i]
        ELSE IF st.in_trade /\ (curr = F(0) \/ Sign(curr) # Sign(prev))
        THEN LET ei == IF st.entry_idx # NoneIdx THEN st.entry_idx ELSE i - 1
             IN  [trades |-> Append(st.trades,
                        [entry_idx |-> ei, exit_idx |-> i, pnl |-> PnlSum(d, ei + 1, i)]),
                  in_trade |-> curr # F(0),
                  entry_idx |-> IF curr # F(0) THEN i ELSE NoneIdx]
        ELSE st

\* Mutant of TradeLoopBody: a sign flip closes the trade and opens none.
TradeLoopBody_CloseOnFlip(d, i, st) ==
    LET prev == PosAt(d, i - 1)
        curr == PosAt(d, i)
    IN  IF ~st.in_trade /\ prev = F(0) /\ curr # F(0)
        THEN [trades |-> st.trades, in_trade |-> TRUE, entry_idx |-> i]
        ELSE IF st.in_trade /\ (curr = F(0) \/ Sign(curr) # Sign(prev))
        THEN LET ei == IF st.entry_idx # NoneIdx THEN st.entry_idx ELSE i - 1
             IN  [trades |-> Append(st.trades,
                        [entry_idx |-> ei, exit_idx |-> i, pnl |-> PnlSum(d, ei, i)]),
                  in_trade |-> FALSE,
                  entry_idx |-> NoneIdx]
        ELSE st

\* Mutant of TradeLoopBody: the trade a sign flip opens is entered at the
\* bar before the flip.
TradeLoopBody_ReopenAtPrev(d, i, st) ==
    LET prev == PosAt(d, i - 1)
        curr == PosAt(d, i)
    IN  IF ~st.in_trade /\ prev = F(0) /\ curr # F(0)
        THEN [trades |-> st.trades, in_trade |-> TRUE, entry_idx |-> i]
        ELSE IF st.in_trade /\ (curr = F(0) \/ Sign(curr) # Sign(prev))
        THEN LET ei == IF st.entry_idx # NoneIdx THEN st.entry_idx ELSE i - 1
             IN  [trades |-> Append(st.trades,
                        [entry_idx |-> ei, exit_idx |-> i, pnl |-> PnlSum(d, ei, i)]),
                  in_trade |-> curr # F(0),
                  entry_idx |-> IF curr # F(0) THEN i - 1 ELSE NoneIdx]
        ELSE st

\* Mutant of TradeLoopBody: a position that is nonzero at bar 0 is a trade
\* opened at bar 0.
TradeLoopBody_OpenAtStart(d, i, st) ==
    LET prev == PosAt(d, i - 1)
        curr == PosAt(d, i)
        was_in == st.in_trade \/ (i = 1 /\ prev # F(0))
        was_entry == IF i = 1 /\ prev # F(0) THEN 0 ELSE st.entry_idx
    IN  IF ~was_in /\ prev = F(0) /\ curr # F(0)
        THEN [trades |-> st.trades, in_trade |-> TRUE, entry_idx |-> i]
        ELSE IF was_in /\ (curr = F(0) \/ Sign(curr) # Sign(prev))
        THEN LET ei == IF was_entry # NoneIdx THEN was_entry ELSE i - 1
             IN  [trades |-> Append(st.trades,
                        [entry_idx |-> ei, exit_idx |-> i, pnl |-> PnlSum(d, ei, i)]),
                  in_trade |-> curr # F(0),
                  entry_idx |-> IF curr # F(0) THEN i ELSE NoneIdx]
        ELSE [trades |-> st.trades, in_trade |-> was_in, entry_idx |-> was_entry]

\* The body of the for loop of infer_trades_from_position at index i (>= 1)
\* of the frame d, from the locals st (stats.py:41-55).
TradeLoopBody(d, i, st) ==
    LET prev == PosAt(d, i - 1)
        curr == PosAt(d, i)
    IN  IF ~st.in_trade /\ prev = F(0) /\ curr # F(0)
        THEN [trades |-> st.trades, in_trade |-> TRUE, entry_idx |-> i]
        ELSE IF st.in_trade /\ (curr = F(0) \/ Sign(curr) # Sign(prev))
        THEN LET ei == IF st.entry_idx # NoneIdx THEN st.entry_idx ELSE i - 1
             IN  [trades |-> Append(st.trades,
                        [entry_idx |-> ei, exit_idx |-> i, pnl |-> PnlSum(d, ei, i)]),
                  in_trade |-> curr # F(0),
                  entry_idx |-> IF curr # F(0) THEN i ELSE NoneIdx]
        ELSE st

RECURSIVE TradeLoop(_, _, _)
\* for i in range(1, len(df)), from index i on.
TradeLoop(d, i, st) ==
    IF i >= Len(d) THEN st ELSE TradeLoop(d, i + 1, TradeLoopBody(d, i, st))

\* infer_trades_from_position(df)
infer_trades_from_position(d) ==
    TradeLoop(d, 1, [trades |-> << >>, in_trade |-> FALSE, entry_idx |-> NoneIdx]).trades

RECURSIVE InsertRow(_, _)
\* The sorted rows s with one more row, in its place.
InsertRow(s, x) ==
    IF s = << >> \/ s[Len(s)].ts <= x.ts THEN Append(s, x)
    ELSE Append(InsertRow(SubSeq(s, 1, Len(s) - 1), x), s[Len(s)])

RECURSIVE SortIndex(_)
\* df.sort_index(): the rows in increasing order of their time index.
SortIndex(d) ==
    IF d = << >> THEN << >>
    ELSE InsertRow(SortIndex(SubSeq(d, 1, Len(d) - 1)), d[Len(d)])

\* trade_count of compute_stats(df) (stats.py:81, 119-122).
TradeCount(d) == Len(infer_trades_from_position(SortIndex(d)))

\* Before the first row.
TradesIdle ==
    /\ df = << >>
    /\ trades = << >>
    /\ in_trade = FALSE
    /\ entry_idx = NoneIdx
    /\ stats = [trades |-> 0]

\* The next row of the frame goes through the loop of
\* infer_trades_from_position (the row of index 0 is not visited), and
\* compute_stats is called on the frame.
ReadRow(position, pnl) ==
    /\ df' = Append(df, [ts |-> Len(df) + 1, position |-> position, pnl |-> pnl])
    /\ LET st == IF Len(df) = 0
                 THEN [trades |-> trades, in_trade |-> in_trade, entry_idx |-> entry_idx]
                 ELSE TradeLoopBody(df', Len(df),
                          [trades |-> trades, in_trade |-> in_trade, entry_idx |-> entry_idx])
       IN  /\ trades' = st.trades
           /\ in_trade' = st.in_trade
           /\ entry_idx' = st.entry_idx
    /\ stats' = [trades |-> TradeCount(df')]
    /\ UNCHANGED << simVars, riskVars, weightVars, runVars >>

\* A row of the input domain.
AnyRow(position, pnl) ==
    /\ Len(df) < MaxTradeBars
    /\ ReadRow(position, pnl)

\* The next row of the frame of test_compute_stats_basic.
FixtureRow ==
    /\ Len(df) < Len(Fixture)
    /\ df = SubSeq(Fixture, 1, Len(df))
    /\ ReadRow(Fixture[Len(df) + 1].position, Fixture[Len(df) + 1].pnl)

(***************************************************************************)
(* compute_stats and max_drawdown_from_equity (backtesting/stats.py)       *)
(***************************************************************************)
\* Number of rows of the series.
MaxStatBars == 4

\* The position and pnl columns of the series (no missing values), the
\* start_equity argument and periods_per_year.
StatPositions == {F(-1), F(0), F(1)}
StatPnls == {F(-2), F(0), F(1)}
StartEquities == {F(2)}
PeriodsPerYear == {2}

\* The arguments of test_compute_stats_basic (test_stats.py:14), and the
\* same call with start_equity left out (None: the default).
FixtureStartEquities == {F(1000), None}
FixturePeriodsPerYear == 24 * 365

\* The forms a series is handed over in: the columns it has, and whether its
\* index is a DatetimeIndex.
Forms == {"pnl", "equity", "timestamp", "no_position", "no_values", "no_time",
          "no_time_no_values"}
ColumnsOf(form) ==
    CASE form = "pnl" -> {"position", "pnl"}
      [] form = "equity" -> {"position", "equity"}
      [] form = "timestamp" -> {"timestamp", "position", "pnl"}
      [] form = "no_position" -> {"pnl"}
      [] form = "no_values" -> {"position"}
      [] form = "no_time" -> {"position", "pnl"}
      [] form = "no_time_no_values" -> {"position"}
IndexOf(form) ==
    IF form \in {"timestamp", "no_time", "no_time_no_values"} THEN "RangeIndex"
    ELSE "DatetimeIndex"

\* float(start_equity), 10_000.0 when the argument is None (stats.py:86-88).
StartOf(start) == IF start = None THEN F(10000) ELSE start

RECURSIVE CumSumFrom(_, _, _)
\* base + Series.cumsum() of the pnl column, from row i (counted from 1) on,
\* where acc is the value at row i - 1.
CumSumFrom(rows, i, acc) ==
    IF i > Len(rows) THEN << >>
    ELSE LET v == FAdd(acc, rows[i].pnl) IN << v >> \o CumSumFrom(rows, i + 1, v)

\* The series of rows (ts, position, pnl) in the given form; its equity
\* column, where the form has one, is start + the cumulative pnl.
FrameOf(rows, form, start) ==
    [rows |-> LET curve == CumSumFrom(rows, 1, StartOf(start))
              IN  [i \in 1..Len(rows) |->
                      [ts |-> rows[i].ts, position |-> rows[i].position,
                       pnl |-> rows[i].pnl, equity |-> curve[i]]],
     cols |-> ColumnsOf(form),
     index |-> IndexOf(form)]

\* _as_datetime_index(df) raises.
NoTimeOrder(fr) == fr.index # "DatetimeIndex" /\ "timestamp" \notin fr.cols

\* df["equity"] after stats.py:83-88.
RECURSIVE EquityColumn(_, _)
\* The equity column of the rows d, from row i on.
EquityColumn(d, i) ==
    IF i > Len(d) THEN << >> ELSE << d[i].equity >> \o EquityColumn(d, i + 1)

\* Mutant of EquityOf: the synthesized curve starts at start_equity, before
\* the first bar's pnl.
EquityOf_FromStart(fr, d, start) ==
    IF "equity" \in fr.cols THEN EquityColumn(d, 1)
    ELSE << StartOf(start) >> \o CumSumFrom(d, 1, StartOf(start))

\* df["equity"] after stats.py:83-88.
EquityOf(fr, d, start) ==
    IF "equity" \in fr.cols THEN EquityColumn(d, 1) ELSE CumSumFrom(d, 1, StartOf(start))

RECURSIVE MaxDrawdownFrom(_, _, _, _)
\* dd.max(skipna=True) of dd = (running_max - equity) / running_max.replace(0, nan),
\* from row i on: peak is equity.cummax() at row i - 1 (None before the first
\* row) and best the largest dd of the rows before i (NaN when there is none
\* that is not NaN). x / NaN is NaN.
MaxDrawdownFrom(eq, i, peak, best) ==
    IF i > Len(eq) THEN best
    ELSE LET running_max == IF peak = None THEN eq[i] ELSE FMax(peak, eq[i])
             dd == IF running_max = F(0) THEN NaN
                   ELSE FDiv(FSub(running_max, eq[i]), running_max)
         IN  MaxDrawdownFrom(eq, i + 1, running_max,
                             IF IsNaN(dd) THEN best
                             ELSE IF IsNaN(best) THEN dd ELSE FMax(best, dd))

\* max_drawdown_from_equity(equity): the maximum is NaN when every dd is, and
\* `NaN or 0.0` is NaN since NaN is true.
max_drawdown_from_equity(eq) ==
    LET m == MaxDrawdownFrom(eq, 1, None, NaN)
    IN  IF m = F(0) THEN F(0) ELSE m

\* 1e-12, smaller than every positive value of the model.
Tiny == << 4, 0 >>
\* max(x, 1e-12)
FloorTiny(x) == IF FGt(x, F(0)) THEN x ELSE Tiny

\* cagr (stats.py:108-111). The power is not evaluated: the value is
\* (final / over) ** (1 / years) - 1 unless zero, and then it is 0.0.
CagrOf(eq, ppy) ==
    LET n_periods == IF Len(eq) - 1 > 1 THEN Len(eq) - 1 ELSE 1
        over == FloorTiny(eq[1])
        final == eq[Len(eq)]
        years == Rat(n_periods, ppy)
        \* total_return > 0: the divisor is positive
    IN  IF FGt(years, F(0)) /\ FGt(final, F(0))
        THEN [zero |-> FALSE, final |-> final, over |-> over, years |-> years]
        ELSE [zero |-> TRUE, final |-> F(0), over |-> F(1), years |-> F(1)]

RECURSIVE KeepLogRet(_, _)
\* The simple returns equity[i] / equity[i - 1] - 1 that survive both
\* replace(inf, nan).dropna() calls of stats.py:94-95, from row i on: the
\* previous equity is not 0 and log1p of the return is finite (return > -1).
KeepLogRet(eq, i) ==
    IF i > Len(eq) THEN << >>
    ELSE LET r == IF eq[i - 1] = F(0) THEN NaN ELSE FSub(FDiv(eq[i], eq[i - 1]), F(1))
         IN  (IF FGt(r, F(-1)) THEN << r >> ELSE << >>) \o KeepLogRet(eq, i + 1)

\* sharpe (stats.py:114-116). The logarithm and the root are not evaluated:
\* the value is mean / std of log1p(log_ret[i]) times sqrt(periods) unless
\* zero, and then it is 0.0 (fewer than two returns, or sigma = 0).
SharpeOf(eq, ppy) ==
    LET log_ret == KeepLogRet(eq, 2)
    IN  IF Len(log_ret) > 1 /\ \E i \in 1..Len(log_ret) : log_ret[i] # log_ret[1]
        THEN [zero |-> FALSE, log_ret |-> log_ret, periods |-> ppy]
        ELSE [zero |-> TRUE, log_ret |-> << >>, periods |-> 0]

\* infer_trades_from_position(df) on the frame: no trade without a position
\* column, and a pnl of zeros without a pnl column (stats.py:31-34).
FrameTrades(fr, d) ==
    IF "position" \notin fr.cols THEN << >>
    ELSE infer_trades_from_position(
             [i \in 1..Len(d) |->
                 [ts |-> d[i].ts, position |-> d[i].position,
                  pnl |-> IF "pnl" \in fr.cols THEN d[i].pnl ELSE F(0)]])

RECURSIVE SumPnl(_, _)
\* sum(t.pnl for t in ts[:n])
SumPnl(ts, n) == IF n = 0 THEN F(0) ELSE FAdd(SumPnl(ts, n - 1), ts[n].pnl)

\* wins and losses (stats.py:120-121), as the trades they come from.
Wins(ts) == SelectSeq(ts, LAMBDA t : FGt(t.pnl, F(0)))
Losses(ts) == SelectSeq(ts, LAMBDA t : FLt(t.pnl, F(0)))

\* win_rate (stats.py:123)
WinRateOf(ts) == IF Len(ts) # 0 THEN Rat(Len(Wins(ts)), Len(ts)) ELSE F(0)

\* Mutant of ProfitFactorOf: the infinite profit factor is returned as it is.
ProfitFactorOf_KeepInf(ts) ==
    LET gross_profit == SumPnl(Wins(ts), Len(Wins(ts)))
        gross_loss == FNeg(SumPnl(Losses(ts), Len(Losses(ts))))
    IN  IF FGt(gross_loss, F(0)) THEN FDiv(gross_profit, gross_loss)
        ELSE IF FGt(gross_profit, F(0)) THEN PosInf ELSE F(0)

\* pf as returned (stats.py:124-130, 142).
ProfitFactorOf(ts) ==
    LET gross_profit == SumPnl(Wins(ts), Len(Wins(ts)))
        gross_loss == FNeg(SumPnl(Losses(ts), Len(Losses(ts))))
        pf == IF FGt(gross_loss, F(0)) THEN FDiv(gross_profit, gross_loss)
              ELSE IF FGt(gross_profit, F(0)) THEN PosInf ELSE F(0)
    \* pf if math.isfinite(pf) else 0.0
    IN  IF pf = PosInf THEN F(0) ELSE pf

\* Mutant of ExposureOf: the position column is read whether it is there or
\* not.
ExposureOf_AnyColumn(fr, d) ==
    Rat(Cardinality({i \in 1..Len(d) : FillNa0(d[i].position) # F(0)}), Len(d))

\* exposure (stats.py:136), for a frame of at least one row.
ExposureOf(fr, d) ==
    IF "position" \in fr.cols
    THEN Rat(Cardinality({i \in 1..Len(d) : FillNa0(d[i].position) # F(0)}), Len(d))
    ELSE F(0)

\* compute_stats(df, start_equity, periods_per_year) with periods_per_year
\* given: the dict it returns (without the two dates), or the exception it
\* raises.
compute_stats(fr, start, ppy) ==
    IF NoTimeOrder(fr)
    THEN [raised |-> "ValueError",
          message |-> "DataFrame needs DatetimeIndex or a 'timestamp' column."]
    ELSE IF "equity" \notin fr.cols /\ "pnl" \notin fr.cols
    THEN [raised |-> "ValueError",
          message |-> "Need 'equity' or 'pnl' column to compute stats."]
    ELSE LET d == SortIndex(fr.rows)
             eq == EquityOf(fr, d, start)
             ts == FrameTrades(fr, d)
         IN  IF Len(d) = 0
             THEN [raised |-> "IndexError",
                   message |-> "single positional indexer is out-of-bounds"]
             ELSE [raised |-> "no",
                   trades |-> Len(ts),
                   win_rate |-> WinRateOf(ts),
                   cagr |-> CagrOf(eq, ppy),
                   pf |-> ProfitFactorOf(ts),
                   sharpe |-> SharpeOf(eq, ppy),
                   max_dd |-> max_drawdown_from_equity(eq),
                   exposure |-> ExposureOf(fr, d),
                   net_pnl |-> FSub(eq[Len(eq)], eq[1])]

\* compute_stats on the series in each of its forms.
ReportsOf(rows, start, ppy) ==
    [form \in Forms |-> compute_stats(FrameOf(rows, form, start), start, ppy)]

\* No series yet.
StatsIdle ==
    /\ frame = << >>
    /\ start_equity = None
    /\ periods_per_year = 1
    /\ reports = [form \in Forms |-> [raised |-> "not called"]]

\* The arguments are chosen, and compute_stats is called on the series of
\* no rows.
StatsInit(start, ppy) ==
    /\ frame = << >>
    /\ start_equity = start
    /\ periods_per_year = ppy
    /\ reports = ReportsOf(<< >>, start, ppy)

\* One more row, and compute_stats is called on the longer series.
StatRow(position, pnl) ==
    LET rows == Append(frame, [ts |-> Len(frame) + 1, position |-> position, pnl |-> pnl])
    IN  /\ frame' = rows
        /\ reports' = ReportsOf(rows, start_equity, periods_per_year)
        /\ UNCHANGED << start_equity, periods_per_year >>
        /\ UNCHANGED << simVars, riskVars, weightVars, runVars, tradeVars >>

\* A row of the input domain.
AnyStatRow(position, pnl) ==
    /\ start_equity \in StartEquities
    /\ Len(frame) < MaxStatBars
    /\ StatRow(position, pnl)

\* The next row of the frame of test_compute_stats_basic.
FixtureStatRow ==
    /\ start_equity \in FixtureStartEquities
    /\ Len(frame) < Len(Fixture)
    /\ frame = SubSeq(Fixture, 1, Len(frame))
    /\ StatRow(Fixture[Len(frame) + 1].position, Fixture[Len(frame) + 1].pnl)

(***************************************************************************)
(* build_args (scripts/tradingview_gateway.py)                             *)
(***************************************************************************)
\* Length of the symbol of the alert.
MaxSymbolLen == 3

\* A symbol is the sequence of its characters. The empty symbol and the
\* timeframe "" are also what a missing key of the alert is (both are false
\* for `or`). An int is << n >>, and << >> when the key is missing.
SymbolChars == {"e", "-", "/", " "}
RECURSIVE StringsUpTo(_)
StringsUpTo(n) ==
    IF n = 0 THEN {<< >>}
    ELSE LET shorter == StringsUpTo(n - 1)
         IN  shorter \cup {Append(s, c) : s \in shorter, c \in SymbolChars}

\* The payloads of the alert.
Alerts ==
    [symbol : StringsUpTo(MaxSymbolLen), SYMBOL : {<< >>, << "e" >>},
     timeframe : {"", "5m", "2h", "1H", "5M"}, TF : {"", "15m"},
     limit : {<< >>, << 0 >>, << 300 >>, << 5000 >>}, LIMIT : {<< >>, << 2001 >>},
     max : {<< >>, << -1 >>, << 10 >>, << 20 >>}, MAX : {<< >>, << 11 >>}]

SAFE_TIMEFRAMES == {"1m", "5m", "15m", "1h"}

\* a or b, for two symbols, two timeframes and two ints (0 is false).
OrStr(a, b) == IF a # << >> THEN a ELSE b
OrTf(a, b) == IF a # "" THEN a ELSE b
OrInt(a, b) == IF a # << >> /\ a[1] # 0 THEN a ELSE b

\* str.lower() of a timeframe.
Lower(tf) ==
    CASE tf = "1H" -> "1h"
      [] tf = "15M" -> "15m"
      [] tf = "5M" -> "5m"
      [] tf = "1M" -> "1m"
      [] tf = "2H" -> "2h"
      [] OTHER -> tf

RECURSIVE Strip(_)
\* s.strip()
Strip(s) ==
    IF s = << >> THEN s
    ELSE IF s[1] = " " THEN Strip(Tail(s))
    ELSE IF s[Len(s)] = " " THEN Strip(SubSeq(s, 1, Len(s) - 1))
    ELSE s

\* s.upper() and s.replace("-", "/")
Upper(s) == [i \in 1..Len(s) |-> IF s[i] = "e" THEN "E" ELSE s[i]]
ReplaceDash(s) == [i \in 1..Len(s) |-> IF s[i] = "-" THEN "/" ELSE s[i]]

\* Mutant of _tv_symbol_to_cli: the quote is appended to every symbol.
tv_symbol_to_cli_AlwaysQuote(sym) ==
    ReplaceDash(Upper(Strip(sym))) \o << "/", "U", "S", "D" >>

\* _tv_symbol_to_cli(sym)
tv_symbol_to_cli(sym) ==
    LET s == ReplaceDash(Upper(Strip(sym)))
    IN  IF \A i \in 1..Len(s) : s[i] # "/" THEN s \o << "/", "U", "S", "D" >> ELSE s

RECURSIVE Digits(_)
\* The decimal digits of n >= 0.
Digits(n) ==
    LET digit == << "0", "1", "2", "3", "4", "5", "6", "7", "8", "9" >>[(n % 10) + 1]
    IN  IF n < 10 THEN << digit >> ELSE Append(Digits(n \div 10), digit)
\* str(n)
Str(n) == IF n < 0 THEN << "-" >> \o Digits(-n) ELSE Digits(n)

\* Mutant of build_args: --max is not capped.
build_args_NoMaxCap(a) ==
    LET sym == OrStr(a.symbol, OrStr(a.SYMBOL, << "B", "T", "C", "U", "S", "D" >>))
        tf == Lower(OrTf(a.timeframe, OrTf(a.TF, "1h")))
        limit == OrInt(a.limit, OrInt(a.LIMIT, << 200 >>))[1]
        max_iters == OrInt(a.max, OrInt(a.MAX, << 5 >>))[1]
    IN  << "sys.executable", "-m", "pro_coinbase_bot", "live",
           tv_symbol_to_cli(sym),
           "--timeframe", IF tf \notin SAFE_TIMEFRAMES THEN "1h" ELSE tf,
           "--limit", Str(IF limit > 2000 THEN 2000 ELSE limit),
           "--max", Str(max_iters) >>

\* build_args(alert): the command line.
build_args(a) ==
    LET sym == OrStr(a.symbol, OrStr(a.SYMBOL, << "B", "T", "C", "U", "S", "D" >>))
        tf == Lower(OrTf(a.timeframe, OrTf(a.TF, "1h")))
        limit == OrInt(a.limit, OrInt(a.LIMIT, << 200 >>))[1]
        max_iters == OrInt(a.max, OrInt(a.MAX, << 5 >>))[1]
    IN  << "sys.executable", "-m", "pro_coinbase_bot", "live",
           tv_symbol_to_cli(sym),
           "--timeframe", IF tf \notin SAFE_TIMEFRAMES THEN "1h" ELSE tf,
           "--limit", Str(IF limit > 2000 THEN 2000 ELSE limit),
           "--max", Str(IF max_iters > 10 THEN 10 ELSE max_iters) >>

\* No alert.
GatewayIdle ==
    /\ alert = [symbol |-> << >>, SYMBOL |-> << >>, timeframe |-> "", TF |-> "",
                limit |-> << >>, LIMIT |-> << >>, max |-> << >>, MAX |-> << >>]
    /\ args = << >>

\* An alert has arrived (tradingview_gateway.py:66).
GatewayInit ==
    /\ alert \in Alerts
    /\ args = << >>

\* cmd = build_args(alert)
BuildArgs ==
    /\ args = << >>
    /\ args' = build_args(alert)
    /\ UNCHANGED alert

(***************************************************************************)
(* with_retries (cli.py)                                                   *)
(***************************************************************************)
\* Largest `retries` argument.
MaxRetries == 4

\* The base_delay argument, and what a call of fn does: it returns, or it
\* raises ccxt.NetworkError, ccxt.ExchangeError or another Exception.
BaseDelays == {Rat(1, 2), F(1)}
FnOutcomes == {"returns", "NetworkError", "ExchangeError", "ValueError"}
Retryable == {"NetworkError", "ExchangeError"}

RECURSIVE Pow2(_)
\* 2 ** n
Pow2(n) == IF n = 0 THEN 1 ELSE 2 * Pow2(n - 1)

\* Mutant of Backoff: the delay grows by base_delay at each attempt.
Backoff_Linear(base, n) == FMul(base, F(n + 1))

\* delay = base_delay * (2 ** attempt)
Backoff(base, n) == FMul(base, F(Pow2(n)))

\* with_retries is not called.
RetryIdle ==
    /\ retries = 0
    /\ base_delay = F(0)
    /\ attempt = 0
    /\ last_exc = "None"
    /\ outcomes = << >>
    /\ sleeps = << >>
    /\ status = "idle"

\* with_retries(fn, retries=n, base_delay=base) is called: range(n) is empty
\* for n = 0, and RetryError is raised at once.
RetryInit(n, base) ==
    /\ retries = n
    /\ base_delay = base
    /\ attempt = 0
    /\ last_exc = "None"
    /\ outcomes = << >>
    /\ sleeps = << >>
    /\ status = IF n > 0 THEN "loop" ELSE "RetryError"

\* Mutant of Attempt: every exception of fn is retried.
Attempt_RetryAll(outcome) ==
    /\ status = "loop"
    /\ outcomes' = Append(outcomes, outcome)
    /\ IF outcome = "returns"
       THEN /\ status' = "returned"
            /\ UNCHANGED << attempt, last_exc, sleeps >>
       ELSE /\ last_exc' = outcome
            /\ sleeps' = Append(sleeps, Backoff(base_delay, attempt))
            /\ attempt' = attempt + 1
            /\ status' = IF attempt + 1 < retries THEN "loop" ELSE "RetryError"
    /\ UNCHANGED << retries, base_delay >>

\* One iteration of the for loop: fn is called; its result is returned, its
\* ccxt error is kept and slept on, and any other exception leaves
\* with_retries. After the last iteration RetryError is raised.
Attempt(outcome) ==
    /\ status = "loop"
    /\ outcomes' = Append(outcomes, outcome)
    /\ IF outcome = "returns"
       THEN /\ status' = "returned"
            /\ UNCHANGED << attempt, last_exc, sleeps >>
       ELSE IF outcome \in Retryable
       THEN /\ last_exc' = outcome
            /\ sleeps' = Append(sleeps, Backoff(base_delay, attempt))
            /\ attempt' = attempt + 1
            /\ status' = IF attempt + 1 < retries THEN "loop" ELSE "RetryError"
       ELSE /\ status' = "raised"
            /\ UNCHANGED << attempt, last_exc, sleeps >>
    /\ UNCHANGED << retries, base_delay >>

(***************************************************************************)
(* cmd_live (cli.py)                                                       *)
(***************************************************************************)
\* Largest --max argument: the iterations of the live loop.
MaxLiveIters == 4

\* The pnl of one step, res["_daily_pnl"] of bt.run(price_dfs).
StepPnls == {F(-600), F(-300), F(0), F(200)}

\* What Backtester.run returns when its symbols sum to daily_pnl: run starts
\* from equity = 10_000.0 and an empty equity_curve at every call
\* (backtest.py:29-31, 44-50).
RunResult(c, pnl) ==
    LET run_eq == FAdd(F(10000), pnl)
    IN  [_stop_daily |-> Flag(check_daily_loss_cap(c, pnl)),
         _stop_dd |-> Flag(check_drawdown(c, << run_eq >>).ret),
         _equity |-> run_eq,
         _daily_pnl |-> pnl]

\* cmd_live is not called.
LiveIdle ==
    /\ live_max_iters = 0
    /\ live_i = 0
    /\ live_daily_pnl = F(0)
    /\ step_pnls = << >>
    /\ live_pc = "idle"

\* cmd_live up to the for loop, with --max = n (cli.py:169-174).
LiveInit(n) ==
    /\ live_max_iters = n
    /\ live_i = 0
    /\ live_daily_pnl = F(0)
    /\ step_pnls = << >>
    /\ live_pc = "loop"

\* One iteration of the for loop: a step of Backtester.run, the pnl
\* accumulated, and the break on the flags of the step (cli.py:174-202).
LiveStep(pnl) ==
    /\ live_pc = "loop"
    /\ live_i < live_max_iters
    /\ LET res == RunResult(rcfg, pnl)
           stop == res._stop_daily # F(0) \/ res._stop_dd # F(0)
       IN  /\ step_pnls' = Append(step_pnls, res._daily_pnl)
           /\ live_daily_pnl' = FAdd(live_daily_pnl, res._daily_pnl)
           /\ live_i' = live_i + 1
           /\ live_pc' = IF stop THEN "halted"
                         ELSE IF live_i + 1 < live_max_iters THEN "loop" ELSE "completed"
    /\ UNCHANGED live_max_iters

(***************************************************************************)
(* Properties of simulate_symbol (checked under SpecSim)                   *)
(***************************************************************************)
\* The last row written, and what the rows say about the iteration before it.
NRows == Len(data)
LastRow == data[NRows]
WasLong == NRows >= 2 /\ data[NRows - 1].pos = 1
WasFlat == NRows >= 1 /\ (NRows = 1 \/ data[NRows - 1].pos = 0)

\* The allocation and the bracket levels as the specification states them.
AllocCash == FMul(equity, position_size)
StopOf(e) == FSub(e, FMul(e, cfg.stop_loss_pct))
TakeProfitOf(e) == FAdd(e, FMul(e, cfg.take_profit_pct))
LowOf(bar) == IF IsNaN(bar.low) THEN F(bar.close) ELSE bar.low
HighOf(bar) == IF IsNaN(bar.high) THEN F(bar.close) ELSE bar.high

RECURSIVE SumCloses(_, _)
\* data[lo].close + ... + data[hi].close
SumCloses(lo, hi) == IF lo > hi THEN 0 ELSE data[lo].close + SumCloses(lo + 1, hi)
\* SMA(w) at row k: undefined (NaN) until w bars have elapsed.
SmaAt(k, w) == IF k < w THEN NaN ELSE Rat(SumCloses(k - w + 1, k), w)

\* The row at which the position held before the last row was entered.
EntryBar ==
    CHOOSE k \in 1..(NRows - 1) :
        /\ data[k].pos = 1
        /\ k = 1 \/ data[k - 1].pos = 0
        /\ \A j \in k..(NRows - 1) : data[j].pos = 1

\* The stop-loss and take-profit conditions of the last bar for a position
\* entered at price e.
StopHit(e) == FLe(LowOf(row), StopOf(e))
TakeProfitHit(e) == FGe(HighOf(row), TakeProfitOf(e))

\* C1: every row of simulate_symbol has position 0 or 1, never negative and
\* never above 1, after any sequence of entries, holds and exits.
C1_PositionZeroOrOne == \A k \in 1..NRows : data[k].pos \in {0, 1}

\* C1 witness: an entry, a held bar and an exit with a realized pnl.
C1_Witness ==
    /\ NRows >= 3
    /\ data[NRows - 2].pos = 1
    /\ data[NRows - 1].pos = 1
    /\ LastRow.pos = 0
    /\ LastRow.pnl # F(0)

\* C2: while Long, a bar on which the stop-loss condition holds exits at the
\* stop price even when the take-profit condition holds too; the take-profit
\* price is used only when the stop-loss condition is false, and an exit at
\* the close only when both bracket conditions are false.
C2_StopLossBeforeTakeProfit ==
    WasLong =>
        LET e == data[NRows - 1].entry
            q == FDiv(AllocCash, e)
        IN  /\ StopHit(e) =>
                /\ LastRow.pos = 0
                /\ LastRow.pnl = FMul(FSub(StopOf(e), e), q)
            /\ ~StopHit(e) /\ TakeProfitHit(e) =>
                /\ LastRow.pos = 0
                /\ LastRow.pnl = FMul(FSub(TakeProfitOf(e), e), q)
            /\ ~StopHit(e) /\ ~TakeProfitHit(e) /\ LastRow.pos = 0 =>
                LastRow.pnl = FMul(FSub(F(row.close), e), q)

\* C2 witness: a bar on which both bracket conditions hold, exited at the stop.
C2_Witness ==
    /\ WasLong
    /\ StopHit(data[NRows - 1].entry)
    /\ TakeProfitHit(data[NRows - 1].entry)
    /\ FLt(LastRow.pnl, F(0))

\* C3 (as claimed): while Long, on a bar where neither bracket triggers, the
\* simulator exits if and only if close <= SMA(fast_window); when
\* close > SMA(fast_window) the position is held whatever SMA(slow) is.
C3_SignalExitIffCloseNotAboveFast ==
    WasLong /\ ~StopHit(data[NRows - 1].entry) /\ ~TakeProfitHit(data[NRows - 1].entry) =>
        (LastRow.pos = 0 <=> FLe(F(row.close), SmaAt(NRows, cfg.fast_sma)))

\* C4: the simulator enters at a bar iff it is Flat before it, close > SMA fast
\* > SMA slow with both defined, the allocation is > 0 and the close is > 0;
\* on entry entry_price = close, qty = equity*position_size/close and the
\* row's pnl is 0; otherwise it stays Flat with position 0, pnl 0, no entry.
C4_EntryIffFlatSignalAllocClose ==
    /\ WasFlat =>
        LET close == F(row.close)
            fast == SmaAt(NRows, cfg.fast_sma)
            slow == SmaAt(NRows, cfg.slow_sma)
        IN  IF /\ FGt(close, fast)
               /\ FGt(fast, slow)
               /\ FGt(AllocCash, F(0))
               /\ FGt(close, F(0))
            THEN /\ LastRow.pos = 1
                 /\ LastRow.entry = close
                 /\ LastRow.pnl = F(0)
                 /\ in_pos
                 /\ entry_price = close
                 /\ qty = FDiv(AllocCash, close)
            ELSE /\ LastRow.pos = 0
                 /\ LastRow.entry = NA
                 /\ LastRow.pnl = F(0)
                 /\ ~in_pos
                 /\ entry_price = None
                 /\ qty = F(0)
    /\ WasLong /\ LastRow.pos = 1 =>
        /\ LastRow.entry = data[NRows - 1].entry
        /\ entry_price = data[NRows - 1].entry

\* C4 witness: an entry made from Flat.
C4_Witness == WasFlat /\ LastRow.pos = 1 /\ in_pos

\* C5: no row before fast_window bars have elapsed (0-based index below
\* fast_window - 1) has position 1.
C5_NoPositionBeforeFastWindow ==
    \A k \in 1..NRows : k < cfg.fast_sma => data[k].pos = 0

\* C5 witness: the early bars have positive closes and a positive allocation,
\* and a position is entered later.
C5_Witness ==
    /\ FGt(AllocCash, F(0))
    /\ NRows >= cfg.fast_sma
    /\ \A k \in 1..(cfg.fast_sma - 1) : data[k].close > 0 /\ data[k].pos = 0
    /\ \E k \in 1..NRows : data[k].pos = 1

\* C6: on any exit (stop-loss, take-profit or signal) the row's pnl is
\* (exit_price - entry_price)*qty, the row's position is 0, the state is Flat
\* with qty and entry_price reset, and no entry happens on that bar even if
\* the entry condition holds on it.
C6_ExitRealizesAndResets ==
    WasLong =>
        LET e == data[NRows - 1].entry
            q == FDiv(AllocCash, e)
            close == F(row.close)
            exit_price == IF StopHit(e) THEN StopOf(e)
                          ELSE IF TakeProfitHit(e) THEN TakeProfitOf(e)
                          ELSE close
        IN  \/ StopHit(e)
            \/ TakeProfitHit(e)
            \/ FLe(close, SmaAt(NRows, cfg.fast_sma))
            \/ LastRow.pos = 0
            => /\ LastRow.pos = 0
               /\ LastRow.entry = NA
               /\ LastRow.pnl = FMul(FSub(exit_price, e), q)
               /\ ~in_pos
               /\ entry_price = None
               /\ qty = F(0)

\* C6 witness: a bracket exit on a bar whose entry condition holds, followed
\* by a re-entry on the next bar.
C6_Witness ==
    /\ NRows >= 3
    /\ data[NRows - 2].pos = 1
    /\ data[NRows - 1].pos = 0
    /\ data[NRows - 1].signal
    /\ data[NRows - 1].pnl # F(0)
    /\ LastRow.pos = 1

\* C7: on every bar held without exiting, the row's pnl is
\* (close - entry_price)*qty with entry_price and qty fixed at the entry bar
\* (the full mark-to-market, not the increment since the previous bar), and
\* the row carries position 1 and the entry price.
C7_HoldMarksToMarketAgainstEntry ==
    WasLong /\ LastRow.pos = 1 =>
        LET e == F(data[EntryBar].close)
            q == FDiv(AllocCash, e)
        IN  /\ LastRow.pnl = FMul(FSub(F(row.close), e), q)
            /\ LastRow.entry = e
            /\ entry_price = e
            /\ qty = q

\* C7 witness: the second of two consecutive held bars.
C7_Witness ==
    /\ NRows >= 3
    /\ data[NRows - 2].pos = 1
    /\ data[NRows - 1].pos = 1
    /\ LastRow.pos = 1
    /\ data[NRows - 1].close # data[EntryBar].close

(***************************************************************************)
(* Properties of the risk predicates (checked under SpecRisk)              *)
(***************************************************************************)
\* C8: check_daily_loss_cap(pnl) is true iff pnl <= -|usd_daily_loss_cap|:
\* pnl equal to -cap is a breach, any pnl above -cap is not.
C8_DailyLossBreachIffAtOrBelowCap ==
    LET cap == IF FLt(rcfg.usd_daily_loss_cap, F(0)) THEN FNeg(rcfg.usd_daily_loss_cap)
               ELSE rcfg.usd_daily_loss_cap
    IN  stop_daily <=> FLe(FAdd(daily_pnl, cap), F(0))

\* C8 witness: a daily pnl exactly at -cap, reported as a breach.
C8_Witness ==
    /\ stop_daily
    /\ FAdd(daily_pnl, FAbs(rcfg.usd_daily_loss_cap)) = F(0)

\* The running peak and the drawdown of point k of the observed curve.
PeakAt(k) ==
    CHOOSE m \in {equity_curve[j] : j \in 1..k} :
        \A j \in 1..k : FLe(equity_curve[j], m)
DrawdownAt(k) ==
    IF FGt(PeakAt(k), F(0))
    THEN FDiv(FSub(PeakAt(k), equity_curve[k]), PeakAt(k))
    ELSE F(0)
BreachPoints ==
    {k \in 1..Len(equity_curve) : FGe(DrawdownAt(k), rcfg.max_drawdown_pct)}

\* C9: check_drawdown(curve) is true iff some point k has
\* (peak_k - curve[k])/peak_k >= max_drawdown_pct (0 when peak_k <= 0); the
\* scan returns at the first such k, not earlier; it is false for the empty
\* curve and for a curve no point of which reaches the cap.
C9_DrawdownBreachIffSomePointAtCap ==
    /\ dd_scan.ret <=> BreachPoints # {}
    /\ dd_scan.ret =>
        /\ dd_scan.read \in BreachPoints
        /\ \A k \in BreachPoints : dd_scan.read <= k
    /\ ~dd_scan.ret => dd_scan.read = Len(equity_curve)

\* C9 witness: the scan fires at the second of three points, whose drawdown
\* equals the cap exactly, after a first point that is no breach.
C9_Witness ==
    /\ Len(equity_curve) = 3
    /\ dd_scan.ret
    /\ dd_scan.read = 2
    /\ DrawdownAt(2) = rcfg.max_drawdown_pct

\* C10: the drawdown breach is terminal within a curve: if check_drawdown is
\* true for a prefix of the curve, it is true for the curve, whatever values
\* follow, a recovery to a new peak included.
C10_DrawdownBreachIsTerminal ==
    \A j \in 1..Len(equity_curve) :
        check_drawdown(rcfg, SubSeq(equity_curve, 1, j)).ret => dd_scan.ret

\* C10 witness: a breached curve extended by a recovery to a new peak.
C10_Witness ==
    /\ Len(equity_curve) >= 3
    /\ check_drawdown(rcfg, SubSeq(equity_curve, 1, Len(equity_curve) - 1)).ret
    /\ \A j \in 1..(Len(equity_curve) - 1) :
        FLt(equity_curve[j], equity_curve[Len(equity_curve)])
    /\ dd_scan.ret

(***************************************************************************)
(* Properties of correlation_based_weights                                 *)
(***************************************************************************)
NSymbols == Cardinality(DOMAIN prices)

RECURSIVE WeightSum(_)
\* The sum of the returned weights over the symbols of S.
WeightSum(S) ==
    IF S = {} THEN F(0)
    ELSE LET k == CHOOSE x \in S : TRUE
         IN  FAdd(weights[k], WeightSum(S \ {k}))

\* A float that is neither NaN nor infinite.
IsFinite(x) == x[2] > 0

\* The labels of the joined frame, and the labels on which symbol k has a
\* price that pct_change can use.
Labels == {i \in 1..MaxRows : \E k \in DOMAIN prices : ~IsNaN(prices[k][i])}
Known(k, i) ==
    IF fill_pad THEN \E j \in 1..i : ~IsNaN(prices[k][j])
    ELSE ~IsNaN(prices[k][i])
\* The labels that carry a return of every symbol (the aligned return set).
AlignedRows ==
    {i \in Labels :
        /\ \E j \in Labels : j < i
        /\ LET prev == CHOOSE j \in Labels : j < i /\ \A h \in Labels : h < i => h <= j
           IN  \A k \in DOMAIN prices : Known(k, i) /\ Known(k, prev)}

\* The penalty and the raw weight of each symbol, as the call computed them.
PenaltyOf(k) ==
    Penalty(AbsCorr(Returns(prices, fill_pad)), DOMAIN prices, k)
RawOf(k) == RawWeights(Returns(prices, fill_pad))[k]
\* |correlation| of the returns of k and j, a missing one counted as 0.
AbsCorrOf(k, j) ==
    LET r == Returns(prices, fill_pad)
        c == Pearson(r[k], r[j])
    IN  IF IsNaN(c) THEN F(0) ELSE FAbs(c)

\* C11: for every non-empty input the returned weights sum to 1; the returned
\* mapping is empty exactly when the input is empty; a single symbol gets
\* exactly 1.0.
C11_WeightsSumToOne ==
    /\ DOMAIN weights = {} <=> DOMAIN prices = {}
    /\ DOMAIN prices # {} =>
        /\ DOMAIN weights = DOMAIN prices
        /\ WeightSum(DOMAIN weights) = F(1)
    /\ NSymbols = 1 => \A k \in DOMAIN weights : weights[k] = F(1)

\* C12: with two or more symbols and a non-empty aligned return set, the
\* penalty of a symbol is the sum of the absolute correlations to all other
\* symbols (missing correlations are 0), it is >= 0, the raw weight
\* 1/(1 + penalty) is finite and in (0, 1]; every returned weight is finite
\* and in [0, 1].
C12_PenaltyNonNegativeWeightsFinite ==
    NSymbols >= 2 =>
        /\ \A k \in DOMAIN weights :
            /\ IsFinite(weights[k])
            /\ FLe(F(0), weights[k])
            /\ FLe(weights[k], F(1))
        /\ AlignedRows # {} =>
            \A k \in DOMAIN prices :
                /\ PenaltyOf(k) =
                       XSum([j \in DOMAIN prices \ {k} |-> AbsCorrOf(k, j)],
                            DOMAIN prices \ {k})
                /\ FLe(F(0), PenaltyOf(k))
                /\ IsFinite(RawOf(k))
                /\ FLt(F(0), RawOf(k))
                /\ FLe(RawOf(k), F(1))

\* C13: with N >= 2 symbols, when the aligned return set is empty or the raw
\* weights sum to a value <= 0, every symbol receives exactly 1/N.
C13_EqualWeightsFallback ==
    NSymbols >= 2 =>
        LET raw == RawWeights(Returns(prices, fill_pad))
            s == XSum(raw, DOMAIN raw)
        IN  (AlignedRows = {} \/ (s # PosInf /\ FLe(s, F(0)))) =>
                \A k \in DOMAIN prices : weights[k] = Rat(1, NSymbols)

C13_Witness ==
    /\ NSymbols = Len(WSymbols)
    /\ AlignedRows = {}
    /\ \A k \in DOMAIN prices : \E i \in 1..MaxRows : ~IsNaN(prices[k][i])
    /\ \A k \in DOMAIN prices : weights[k] = Rat(1, Len(WSymbols))

(***************************************************************************)
(* Properties of Backtester.run (checked under SpecRun)                    *)
(***************************************************************************)
\* The symbols of price_dfs, and those the for loop has gone through.
RunKeys == {RunSymbols[i] : i \in 1..Len(price_dfs)}
PanelOf(k) == price_dfs[CHOOSE i \in 1..Len(price_dfs) : RunSymbols[i] = k]
Visited == {RunSymbols[i] : i \in 1..(sym_idx - 1)}
StartEquity == F(10000)

RECURSIVE SumResults(_)
\* The sum of the reported pnl of the symbols of S.
SumResults(S) ==
    IF S = {} THEN F(0)
    ELSE LET k == CHOOSE x \in S : TRUE
         IN  FAdd(results[k], SumResults(S \ {k}))

\* C14: in a run over two or more symbols a failure while simulating one
\* symbol never aborts the run: the run goes on to report every symbol.
C14_SymbolFailureNeverAborts ==
    Len(price_dfs) >= 2 =>
        /\ pc # "raised"
        /\ pc = "done" => RunKeys \subseteq DOMAIN results

\* C15: a symbol with an empty panel is left out of the weighting and raises
\* nothing; a symbol whose weight is <= 0 or absent is skipped without being
\* simulated and its pnl is exactly 0.
C15_EmptyOrUnweightedSkipped ==
    pc # "idle" =>
        /\ \A k \in RunKeys :
            PanelOf(k).closes = << >> => k \notin DOMAIN prices /\ k \notin DOMAIN weights
        /\ \A k \in Visited :
            (k \notin DOMAIN weights \/ FLe(weights[k], F(0))) =>
                /\ k \notin simulated
                /\ results[k] = F(0)
        /\ pc = "raised" => Panel.closes # << >>

C15_Witness ==
    /\ pc = "done"
    /\ \E k \in RunKeys :
        /\ PanelOf(k).closes = << >>
        /\ results[k] = F(0)
        /\ k \notin simulated
    /\ simulated # {}

\* C16: the pnl of a simulated symbol is the pnl of the final row of its
\* simulation (0 without rows); the step pnl is the sum of the symbols' pnl;
\* equity is updated once, after all symbols, to the start equity plus the
\* step pnl; every symbol is sized against the same start equity.
C16_StepPnlIsSumEquityUpdatedOnce ==
    /\ pc \in {"loop", "simulate", "raised"} => run_equity = StartEquity
    /\ pc = "simulate" => equity = StartEquity
    /\ (pc = "loop" /\ sym_idx > 1 /\ RunSymbols[sym_idx - 1] \in simulated) =>
        results[RunSymbols[sym_idx - 1]] =
            IF Len(data) > 0 THEN data[Len(data)].pnl ELSE F(0)
    /\ pc \in {"loop", "simulate", "raised"} => daily_pnl = SumResults(Visited)
    /\ pc = "done" =>
        /\ results["_daily_pnl"] = SumResults(RunKeys)
        /\ results["_equity"] = FAdd(StartEquity, results["_daily_pnl"])
        /\ equity_curve = << results["_equity"] >>

C16_Witness ==
    /\ pc = "done"
    /\ Cardinality(simulated) >= 2
    /\ \A k \in simulated : results[k] # F(0)
    /\ \E k, j \in simulated : results[k] # results[j]

\* C17: run returns the keys _daily_pnl, _equity, _stop_daily and _stop_dd;
\* _stop_daily is 1.0 iff the step pnl is at or below minus the daily loss cap
\* and _stop_dd is 1.0 iff the step's equity curve breaches the drawdown cap
\* (0.0 otherwise); a breach neither stops the run nor changes the equity.
C17_BreachesReportedAsValues ==
    pc = "done" =>
        /\ {"_daily_pnl", "_equity", "_stop_daily", "_stop_dd"} \subseteq DOMAIN results
        /\ RunKeys \subseteq DOMAIN results
        /\ results["_stop_daily"] =
            IF FLe(FAdd(results["_daily_pnl"], FAbs(rcfg.usd_daily_loss_cap)), F(0))
            THEN F(1) ELSE F(0)
        /\ results["_stop_dd"] = IF BreachPoints # {} THEN F(1) ELSE F(0)
        /\ results["_equity"] = FAdd(StartEquity, results["_daily_pnl"])

C17_Witness ==
    /\ pc = "done"
    /\ results["_stop_daily"] = F(1)
    /\ results["_stop_dd"] = F(1)
    /\ Len(price_dfs) >= 2

\* C32: the equity curve of run holds only the equity after the step, so
\* with max_drawdown_pct > 0 the drawdown flag _stop_dd it returns is 0.0,
\* however large the loss of the step is.
C32_StopDdNeverSetWithPositiveLimit ==
    (pc = "done" /\ FGt(rcfg.max_drawdown_pct, F(0))) =>
        /\ Len(equity_curve) = 1
        /\ results["_stop_dd"] = F(0)

\* A returned run with a positive limit whose loss is over the limit and
\* over the daily loss cap.
C32_Witness ==
    /\ pc = "done"
    /\ FGt(rcfg.max_drawdown_pct, F(0))
    /\ FGe(FNeg(results["_daily_pnl"]), FMul(rcfg.max_drawdown_pct, StartEquity))
    /\ results["_stop_daily"] = F(1)

RECURSIVE SimOf(_, _, _, _)
\* simulate_symbol(panel, position_size = w, equity = eq) after its first n
\* bars, as a function of its arguments alone: the locals in_pos,
\* entry_price and qty, the pnl of bar n, and whether row["low"] raised.
SimOf(panel, n, w, eq) ==
    IF n = 0
    THEN [in_pos |-> FALSE, entry_price |-> None, qty |-> F(0), pnl |-> F(0),
          raised |-> FALSE]
    ELSE LET st == SimOf(panel, n - 1, w, eq)
             bar == BarOf(panel, n)
             ind == Indicators(SubSeq(panel.closes, 1, n), cfg)
             price == F(bar.close)
             alloc_cash == FMul(eq, w)
         IN  IF st.raised THEN st
             ELSE IF ~st.in_pos
             THEN IF EntryAllowed(ind.signal, alloc_cash, price)
                  THEN [in_pos |-> TRUE, entry_price |-> price,
                        qty |-> FDiv(alloc_cash, price), pnl |-> F(0), raised |-> FALSE]
                  ELSE [st EXCEPT !.pnl = F(0)]
             ELSE IF ~panel.has_low_high THEN [st EXCEPT !.raised = TRUE]
             ELSE LET x == ExitPrice(cfg, st.entry_price, bar.low, bar.high, price,
                                     ind.signal)
                  IN  IF x # None
                      THEN [in_pos |-> FALSE, entry_price |-> None, qty |-> F(0),
                            pnl |-> FMul(FSub(x, st.entry_price), st.qty),
                            raised |-> FALSE]
                      ELSE [st EXCEPT !.pnl = FMul(FSub(price, st.entry_price), st.qty)]

\* The orders in which the items of price_dfs can be processed.
Orders ==
    {o \in [1..Len(price_dfs) -> 1..Len(price_dfs)] :
        \A a, b \in 1..Len(price_dfs) : o[a] = o[b] => a = b}

RECURSIVE RunIn(_, _)
\* The for loop of run over the first n symbols of the order o, each symbol
\* computed from its own panel, its weight and the starting equity.
RunIn(o, n) ==
    IF n = 0 THEN [raised |-> FALSE, out |-> EmptyMap, pnl |-> F(0)]
    ELSE LET prev == RunIn(o, n - 1)
             k == RunSymbols[o[n]]
             w == WeightOf(weights, k)
             sim == SimOf(price_dfs[o[n]], Len(price_dfs[o[n]].closes), w, StartEquity)
         IN  IF prev.raised THEN prev
             ELSE IF FLe(w, F(0)) THEN [prev EXCEPT !.out = DictSet(prev.out, k, F(0))]
             ELSE IF sim.raised THEN [prev EXCEPT !.raised = TRUE]
             ELSE [raised |-> FALSE, out |-> DictSet(prev.out, k, sim.pnl),
                   pnl |-> FAdd(prev.pnl, sim.pnl)]

\* What run gives when its symbols are processed in the order o.
RunOutcome(o) ==
    LET r == RunIn(o, Len(o))
        step == RunResult(rcfg, r.pnl)
    IN  IF r.raised THEN [raised |-> TRUE, out |-> EmptyMap]
        ELSE [raised |-> FALSE,
              out |-> DictSet(DictSet(DictSet(DictSet(r.out,
                        "_stop_daily", step._stop_daily), "_stop_dd", step._stop_dd),
                        "_equity", step._equity), "_daily_pnl", step._daily_pnl)]

\* C35: the result of run does not depend on the order in which the symbols
\* are processed.  The simulation of a symbol is a function of its own panel,
\* its weight and the starting equity of the step, whatever was processed
\* before it, and processing the symbols in any order gives the per-symbol
\* pnl, the step pnl, the equity and the flags that run returns (or raises,
\* when run raises).
C35_RunIsOrderIndependent ==
    /\ pc = "simulate" =>
        LET sim == SimOf(Panel, Len(data), WeightOf(weights, Sym), StartEquity)
        IN  /\ ~sim.raised
            /\ sim.in_pos = in_pos
            /\ sim.entry_price = entry_price
            /\ sim.qty = qty
            /\ Len(data) > 0 => data[Len(data)].pnl = sim.pnl
    /\ pc = "done" =>
        \A o \in Orders : RunOutcome(o) = [raised |-> FALSE, out |-> results]
    /\ pc = "raised" => \A o \in Orders : RunOutcome(o).raised

\* A returned run over MaxPanels symbols, all simulated, with different
\* nonzero pnl and a nonzero step pnl.
C35_Witness ==
    /\ pc = "done"
    /\ Len(price_dfs) = MaxPanels
    /\ simulated = RunKeys
    /\ \A k \in RunKeys : results[k] # F(0)
    /\ results[RunSymbols[1]] # results[RunSymbols[2]]
    /\ results["_daily_pnl"] # F(0)

(***************************************************************************)
(* Properties of infer_trades_from_position (checked under SpecTrades)     *)
(***************************************************************************)
\* The position and the pnl of bar i (from 0) of the frame, missing as 0.
P(i) == IF IsNaN(df[i + 1].position) THEN F(0) ELSE df[i + 1].position
BarPnl(i) == IF IsNaN(df[i + 1].pnl) THEN F(0) ELSE df[i + 1].pnl
LastBar == Len(df) - 1
SameSide(a, b) == (a[1] > 0 /\ b[1] > 0) \/ (a[1] < 0 /\ b[1] < 0)

\* A trade is open over bar i: the position is nonzero since a bar s >= 1
\* that followed a zero position.
OpenOver(i) ==
    \E e \in 1..i : P(e - 1) = F(0) /\ \A j \in e..i : P(j) # F(0)
\* Bar i flips the sign of the position of an open trade.
FlipAt(i) == i >= 2 /\ OpenOver(i - 1) /\ P(i) # F(0) /\ ~SameSide(P(i), P(i - 1))
\* Bar i opens a trade; bar x ends a trade open over x - 1.
OpensAt(i) == i >= 1 /\ P(i) # F(0) /\ (P(i - 1) = F(0) \/ FlipAt(i))
EndsAt(x) == P(x) = F(0) \/ ~SameSide(P(x), P(x - 1))
\* The first bar after e that ends the trade opened at e, if any.
HasClose(e) == \E x \in (e + 1)..LastBar : EndsAt(x)
CloseOf(e) ==
    CHOOSE x \in (e + 1)..LastBar :
        EndsAt(x) /\ \A y \in (e + 1)..(x - 1) : ~EndsAt(y)

RECURSIVE BarPnlSum(_, _)
\* The pnl of the bars a..b, both included.
BarPnlSum(a, b) == IF a > b THEN F(0) ELSE FAdd(BarPnl(a), BarPnlSum(a + 1, b))

ClosedTrades ==
    {[entry_idx |-> e, exit_idx |-> CloseOf(e), pnl |-> BarPnlSum(e, CloseOf(e))] :
        e \in {i \in 1..LastBar : OpensAt(i) /\ HasClose(i)}}

C20_TradesOrdered ==
    /\ \A k \in 1..Len(trades) : trades[k].entry_idx < trades[k].exit_idx
    /\ \A k \in 2..Len(trades) :
        /\ trades[k - 1].exit_idx < trades[k].exit_idx
        /\ trades[k].entry_idx >= trades[k - 1].exit_idx

C20_Witness ==
    /\ Len(trades) >= 2
    /\ trades[2].entry_idx > trades[1].exit_idx
    /\ Len(df) <= MaxTradeBars

\* The position is nonzero from bar 0 through bar j: it has not yet
\* returned to 0.
HeldFromStart(j) == \A i \in 0..j : P(i) # F(0)

SimFrame(d) ==
    [k \in 1..Len(d) |-> [ts |-> k, position |-> F(d[k].pos), pnl |-> d[k].pnl]]

\* The trades inferred from the rows d, with the trade left open.
Inferred(d) ==
    TradeLoop(SimFrame(d), 1, [trades |-> << >>, in_trade |-> FALSE, entry_idx |-> NoneIdx])

\* C34: the trades inferred from the rows of the simulator are its completed
\* round trips, one to one.  Bar by bar: an entry of the simulator at bar i
\* opens the inferred trade at i and reports nothing, a held bar changes
\* nothing, an exit of the simulator at bar i reports exactly one more trade,
\* from the bar of the entry to i, and a flat bar reports nothing.
C34_InferredTradesAreRoundTrips ==
    [][LET before == Inferred(data)
           rows == data'
           after == Inferred(rows)
           i == Len(rows) - 1
       IN  /\ before.in_trade = in_pos
           /\ after.in_trade = in_pos'
           /\ (~in_pos /\ in_pos') =>
                /\ after.trades = before.trades
                /\ after.entry_idx = i
           /\ (in_pos /\ in_pos') =>
                /\ after.trades = before.trades
                /\ after.entry_idx = before.entry_idx
           /\ (in_pos /\ ~in_pos') =>
                /\ Len(after.trades) = Len(before.trades) + 1
                /\ SubSeq(after.trades, 1, Len(before.trades)) = before.trades
                /\ after.trades[Len(after.trades)].entry_idx = before.entry_idx
                /\ after.trades[Len(after.trades)].exit_idx = i
           /\ (~in_pos /\ ~in_pos') => after.trades = before.trades
      ]_vars

\* The simulator has completed a round trip and entered again at the last
\* bar: one trade is inferred, over the bars of the round trip.
C34_Witness ==
    /\ in_pos
    /\ Len(Inferred(data).trades) = 1
    /\ Inferred(data).trades[1].exit_idx < Len(data) - 1
    /\ Inferred(data).entry_idx = Len(data) - 1

(***************************************************************************)
(* Properties of compute_stats (checked under SpecStats)                   *)
(***************************************************************************)
\* compute_stats returned a result for the series in the given form.
Returned(form) == reports[form].raised = "no"

\* C21: compute_stats on the equity-only series and on the pnl-only series
\* whose start_equity plus cumulative pnl is that equity (same position
\* column, timestamps and periods_per_year) return the same value for every
\* derived metric: trades, win_rate, cagr, pf, sharpe, max_dd, exposure and
\* net_pnl.
C21_EquityAndPnlFormsAgree ==
    Returned("pnl") /\ Returned("equity") => reports["equity"] = reports["pnl"]

\* The forms of the series compute_stats accepts.
AcceptedForms == {"pnl", "equity", "timestamp", "no_position"}

\* C22: for every accepted input, 0 <= win_rate <= 1, pf is finite and >= 0,
\* 0 <= max_dd <= 1 and 0 <= exposure <= 1, whatever the pnl sequence is,
\* losses that take the synthesized equity to zero or below included.
C22_MetricsInRange ==
    \A form \in AcceptedForms :
        Returned(form) =>
            LET s == reports[form]
            IN  /\ FLe(F(0), s.win_rate) /\ FLe(s.win_rate, F(1))
                /\ IsFinite(s.pf) /\ FLe(F(0), s.pf)
                /\ FLe(F(0), s.max_dd) /\ FLe(s.max_dd, F(1))
                /\ FLe(F(0), s.exposure) /\ FLe(s.exposure, F(1))

\* The equity curve of the series: start_equity plus the cumulative pnl.
StatCurve == CumSumFrom(frame, 1, StartOf(start_equity))

RECURSIVE StatPeak(_)
\* The running peak of the equity curve at point i (counted from 1).
StatPeak(i) == IF i = 1 THEN StatCurve[1] ELSE FMax(StatPeak(i - 1), StatCurve[i])

\* The drawdown at point i: (running_peak - equity) / running_peak, and 0
\* when the running peak is not positive.
StatDrawdown(i) ==
    IF FLe(StatPeak(i), F(0)) THEN F(0)
    ELSE FDiv(FSub(StatPeak(i), StatCurve[i]), StatPeak(i))

\* C23: max_drawdown_from_equity returns the maximum over the points of the
\* curve of (running_peak - equity) / running_peak; that is exactly 0 for
\* every non-decreasing curve, and exactly 0 (a number) whenever the running
\* peak is <= 0, an all-zero curve included.
C23_MaxDrawdownIsLargestPeakToEquityDrop ==
    Returned("equity") =>
        LET n == Len(frame)
            mdd == reports["equity"].max_dd
        IN  /\ \E i \in 1..n : mdd = StatDrawdown(i)
            /\ \A i \in 1..n : FGe(mdd, StatDrawdown(i))
            /\ (\A i \in 2..n : FGe(StatCurve[i], StatCurve[i - 1])) => mdd = F(0)
            /\ (\A i \in 1..n : FLe(StatPeak(i), F(0))) => mdd = F(0)

\* The trades of the series with its position and pnl columns.
StatTrades == infer_trades_from_position(frame)

RECURSIVE GrossUpTo(_, _)
\* The sum of side * pnl over the first n trades with side * pnl > 0: the
\* gross profit for side = 1 and the gross loss for side = -1.
GrossUpTo(n, side) ==
    IF n = 0 THEN F(0)
    ELSE LET x == FMul(F(side), StatTrades[n].pnl)
         IN  FAdd(GrossUpTo(n - 1, side), IF FGt(x, F(0)) THEN x ELSE F(0))

GrossProfit == GrossUpTo(Len(StatTrades), 1)
GrossLoss == GrossUpTo(Len(StatTrades), -1)
WinCount == Cardinality({i \in 1..Len(StatTrades) : FGt(StatTrades[i].pnl, F(0))})

\* C24: pf = gross_profit / gross_loss when gross_loss > 0, and pf = 0 in
\* every case with gross_loss = 0 (an all-winning series reports 0, not
\* infinity, and so does a series with no trades); win_rate = wins / total
\* trades, and 0 when there are no trades.
C24_ProfitFactorAndWinRate ==
    Returned("pnl") =>
        /\ reports["pnl"].pf = (IF FGt(GrossLoss, F(0)) THEN FDiv(GrossProfit, GrossLoss)
                                ELSE F(0))
        /\ reports["pnl"].win_rate = (IF Len(StatTrades) = 0 THEN F(0)
                                     ELSE Rat(WinCount, Len(StatTrades)))

\* A winning and a losing trade: pf is the ratio, and win_rate is 1/2.
C24_Witness ==
    /\ Returned("pnl")
    /\ Len(frame) <= MaxStatBars
    /\ FGt(GrossProfit, F(0)) /\ FGt(GrossLoss, F(0))
    /\ reports["pnl"].pf = FDiv(GrossProfit, GrossLoss)
    /\ reports["pnl"].win_rate = Rat(1, 2)

\* The series in the given form has no time ordering (no DatetimeIndex and no
\* timestamp column), and it has neither an equity nor a pnl column.
LacksTime(form) == IndexOf(form) # "DatetimeIndex" /\ "timestamp" \notin ColumnsOf(form)
LacksValues(form) == ColumnsOf(form) \cap {"equity", "pnl"} = {}

\* C25: compute_stats raises ValueError, with no partial result, exactly when
\* the series has neither an equity nor a pnl column or when no time ordering
\* can be derived from it; the time ordering is checked first; no other
\* condition of the input raises.
C25_ValueErrorExactlyForUnusableInput ==
    \A form \in Forms :
        /\ reports[form].raised = "ValueError" <=> (LacksTime(form) \/ LacksValues(form))
        /\ reports[form].raised = "ValueError" => DOMAIN reports[form] = {"raised", "message"}
        /\ LacksTime(form) =>
               reports[form].message = "DataFrame needs DatetimeIndex or a 'timestamp' column."
        /\ reports[form].raised \in {"no", "ValueError"}

\* The value of cagr is 0: the literal 0.0, or 1 ** (1 / years) - 1.
CagrIsZero(c) == c.zero \/ c.final = c.over

\* No field of the result is NaN.
NoNaN(s) ==
    /\ ~IsNaN(s.win_rate) /\ ~IsNaN(s.pf) /\ ~IsNaN(s.max_dd)
    /\ ~IsNaN(s.exposure) /\ ~IsNaN(s.net_pnl)

\* C26: numerical degeneracies are not errors. A zero-bar series, a
\* single-bar series, a series with no returns, a zero or non-positive equity
\* peak and a series with no trades each give a complete result in which the
\* affected metrics (cagr, sharpe, max_dd, win_rate, pf) are 0: no exception,
\* no NaN.
C26_DegeneraciesGiveNeutralDefaults ==
    LET s == reports["pnl"]
        n == Len(frame)
    IN  /\ n <= 1 =>
               /\ Returned("pnl") /\ NoNaN(s)
               /\ CagrIsZero(s.cagr) /\ s.sharpe.zero /\ s.max_dd = F(0)
               /\ s.win_rate = F(0) /\ s.pf = F(0)
        /\ (n >= 1 /\ \A i \in 1..(n - 1) : StatCurve[i] = F(0)) =>
               Returned("pnl") /\ NoNaN(s) /\ s.sharpe.zero
        /\ (n >= 1 /\ \A i \in 1..n : FLe(StatPeak(i), F(0))) =>
               Returned("pnl") /\ NoNaN(s) /\ s.max_dd = F(0)
        /\ (n >= 1 /\ StatTrades = << >>) =>
               Returned("pnl") /\ NoNaN(s) /\ s.win_rate = F(0) /\ s.pf = F(0)

\* C27: for a series without a position column infer_trades_from_position
\* returns the empty list, and compute_stats reports trades = 0, win_rate = 0,
\* pf = 0 and exposure = 0 while it still computes the metrics that come from
\* the equity (cagr, sharpe, max_dd, net_pnl), which are those of the same
\* series with its position column.
C27_NoPositionColumn ==
    /\ FrameTrades(FrameOf(frame, "no_position", start_equity), frame) = << >>
    /\ Returned("pnl") =>
           LET s == reports["no_position"]
           IN  /\ Returned("no_position")
               /\ s.trades = 0 /\ s.win_rate = F(0) /\ s.pf = F(0) /\ s.exposure = F(0)
               /\ s.cagr = reports["pnl"].cagr
               /\ s.sharpe = reports["pnl"].sharpe
               /\ s.max_dd = reports["pnl"].max_dd
               /\ s.net_pnl = reports["pnl"].net_pnl

\* The series with its position column has a winning trade and a drawdown.
C27_Witness ==
    /\ Returned("no_position")
    /\ Len(frame) <= MaxStatBars
    /\ reports["pnl"].trades >= 1
    /\ FGt(reports["pnl"].win_rate, F(0))
    /\ FGt(reports["pnl"].exposure, F(0))
    /\ FGt(reports["no_position"].max_dd, F(0))
    /\ reports["no_position"].trades = 0

\* C28: cagr is 0 whenever the initial equity is <= 0 (or about 0), years is
\* <= 0 or the total return final / initial is <= 0; otherwise it is
\* (final / initial) ** (1 / years) - 1 with
\* years = (bar_count - 1) / periods_per_year.
C28_CagrGuards ==
    Returned("equity") =>
        LET c == reports["equity"].cagr
            initial == StatCurve[1]
            final == StatCurve[Len(frame)]
            years == Rat(Len(frame) - 1, periods_per_year)
        IN  IF FLe(initial, F(0)) \/ FLe(years, F(0)) \/ FLe(FDiv(final, initial), F(0))
            THEN CagrIsZero(c)
            ELSE c = [zero |-> FALSE, final |-> final, over |-> initial, years |-> years]

RECURSIVE FramePnlSum(_, _)
\* The sum of the pnl of the rows a..b of the series (counted from 1).
FramePnlSum(a, b) == IF a > b THEN F(0) ELSE FAdd(frame[a].pnl, FramePnlSum(a + 1, b))

\* Other values of the start_equity argument.
OtherStartEquities == {F(0), F(1000), F(10000), None}

\* C36: for a pnl-only input the synthesized equity of bar k is start_equity
\* plus the pnl of the bars up to k, so net_pnl (final equity - initial
\* equity) is the sum of the pnl of the bars after the first: the first
\* bar's pnl is not in it, and it is the same for every start_equity.
C36_NetPnlExcludesFirstBar ==
    Returned("pnl") =>
        /\ LET pnl_frame == FrameOf(frame, "pnl", start_equity)
               eq == EquityOf(pnl_frame, SortIndex(pnl_frame.rows), start_equity)
           IN  /\ Len(eq) = Len(frame)
               /\ \A k \in 1..Len(frame) :
                    eq[k] = FAdd(StartOf(start_equity), FramePnlSum(1, k))
        /\ reports["pnl"].net_pnl = FramePnlSum(2, Len(frame))
        /\ \A other \in OtherStartEquities :
                compute_stats(FrameOf(frame, "pnl", other), other, periods_per_year).net_pnl
                    = reports["pnl"].net_pnl

\* A pnl-only series of three or more bars whose first bar has a pnl, so that
\* net_pnl is not the sum of all the pnl.
C36_Witness ==
    /\ Returned("pnl")
    /\ Len(frame) >= 3
    /\ frame[1].pnl # F(0)
    /\ reports["pnl"].net_pnl # F(0)
    /\ reports["pnl"].net_pnl # FramePnlSum(1, Len(frame))

(***************************************************************************)
(* Properties of build_args (checked under SpecGateway)                    *)
(***************************************************************************)
RECURSIVE NatOf(_)
\* The number a sequence of decimal digits writes.
NatOf(s) ==
    LET d == CHOOSE k \in 0..9 : << "0", "1", "2", "3", "4", "5", "6", "7", "8", "9" >>[k + 1] = s[Len(s)]
    IN  IF Len(s) = 1 THEN d ELSE 10 * NatOf(SubSeq(s, 1, Len(s) - 1)) + d
\* The integer a decimal string writes.
IntOf(s) == IF s[1] = "-" THEN -NatOf(Tail(s)) ELSE NatOf(s)

\* The symbol and the timeframe the alert asks for: the first of the two keys
\* that has a value, and the default.
AskedSymbol ==
    IF alert.symbol # << >> THEN alert.symbol
    ELSE IF alert.SYMBOL # << >> THEN alert.SYMBOL
    ELSE << "B", "T", "C", "U", "S", "D" >>
AskedTimeframe ==
    IF alert.timeframe # "" THEN alert.timeframe
    ELSE IF alert.TF # "" THEN alert.TF
    ELSE "1h"

\* s upper-cased with "-" replaced by "/", and "/USD" appended when there is
\* no "/" in it.
CliSymbolOf(s) ==
    LET t == [i \in 1..Len(s) |-> IF s[i] = "-" THEN "/" ELSE IF s[i] = "e" THEN "E" ELSE s[i]]
    IN  IF \E i \in 1..Len(t) : t[i] = "/" THEN t ELSE t \o << "/", "U", "S", "D" >>

C30_RetriesAreBounded ==
    LET calls == Len(outcomes)
    IN  /\ calls <= retries
        /\ \A i \in 1..(calls - 1) : outcomes[i] \in {"NetworkError", "ExchangeError"}
        /\ Len(sleeps) = Cardinality({i \in 1..calls :
                                        outcomes[i] \in {"NetworkError", "ExchangeError"}})
        /\ \A i \in 1..Len(sleeps) : sleeps[i] = FMul(base_delay, F(2 ^ (i - 1)))
        /\ status = "returned" <=> (calls >= 1 /\ outcomes[calls] = "returns")
        /\ status = "raised" <=> (calls >= 1 /\ outcomes[calls] = "ValueError")
        /\ status = "RetryError" <=>
               (calls = retries /\ \A i \in 1..calls :
                                      outcomes[i] \in {"NetworkError", "ExchangeError"})
        /\ status = "loop" => calls < retries

\* Two retryable failures, then fn returns at the third of four attempts.
C30_Witness ==
    /\ retries = 4
    /\ outcomes = << "NetworkError", "ExchangeError", "returns" >>
    /\ sleeps = << base_delay, FMul(base_delay, F(2)) >>
    /\ status = "returned"

(***************************************************************************)
(* Properties of cmd_live (checked under SpecLive)                         *)
(***************************************************************************)
\* C31: in the live loop trading stops once the day's loss cap is breached:
\* whenever the loop is about to execute a further step, the accumulated
\* daily pnl (the sum of the step pnls since the loop started) is above
\* -usd_daily_loss_cap, also when no single step reaches the cap by itself.
C31_LossCapStopsLiveLoop ==
    live_pc = "loop" => ~check_daily_loss_cap(rcfg, live_daily_pnl)

(***************************************************************************)
(* Specifications                                                          *)
(***************************************************************************)
\* simulate_symbol on a price panel of at most MaxBars bars; the risk manager
\* is not called.
InitSim ==
    /\ SimInit
    /\ rcfg = [usd_daily_loss_cap |-> F(500), max_drawdown_pct |-> Rat(3, 100)]
    /\ RiskIdle
    /\ fill_pad = FALSE
    /\ WeightsIdle
    /\ RunIdle
    /\ TradesIdle
    /\ StatsIdle
    /\ GatewayIdle
    /\ RetryIdle
    /\ LiveIdle

NextSim ==
    \/ \E bar \in FlatBars : FlatBar(bar) /\ UNCHANGED << riskVars, weightVars, runVars, tradeVars, statVars, gatewayVars, retryVars, liveVars >>
    \/ \E bar \in Bars : LongBar(bar) /\ UNCHANGED << riskVars, weightVars, runVars, tradeVars, statVars, gatewayVars, retryVars, liveVars >>

SpecSim == InitSim /\ [][NextSim]_vars

\* A caller of the two risk predicates; the simulator does not run.
InitRisk ==
    /\ RiskInit
    /\ cfg = [fast_sma |-> 2, slow_sma |-> 3, stop_loss_pct |-> Rat(1, 4),
              take_profit_pct |-> Rat(1, 2)]
    /\ position_size = Rat(1, 2)
    /\ equity = F(10000)
    /\ SimIdle
    /\ fill_pad = FALSE
    /\ WeightsIdle
    /\ RunIdle
    /\ TradesIdle
    /\ StatsIdle
    /\ GatewayIdle
    /\ RetryIdle
    /\ LiveIdle

NextRisk ==
    \/ \E v \in EquityValues : ObserveEquity(v) /\ UNCHANGED << simVars, weightVars, runVars, tradeVars, statVars, gatewayVars, retryVars, liveVars >>
    \/ \E p \in PnlValues : CheckDailyLoss(p) /\ UNCHANGED << simVars, weightVars, runVars, tradeVars, statVars, gatewayVars, retryVars, liveVars >>

SpecRisk == InitRisk /\ [][NextRisk]_vars

\* Calls of correlation_based_weights on mappings of up to three symbols.
InitWeights ==
    /\ WeightsInit
    /\ cfg = [fast_sma |-> 2, slow_sma |-> 3, stop_loss_pct |-> Rat(1, 4),
              take_profit_pct |-> Rat(1, 2)]
    /\ position_size = Rat(1, 2)
    /\ equity = F(10000)
    /\ SimIdle
    /\ rcfg = [usd_daily_loss_cap |-> F(500), max_drawdown_pct |-> Rat(3, 100)]
    /\ RiskIdle
    /\ RunIdle
    /\ TradesIdle
    /\ StatsIdle
    /\ GatewayIdle
    /\ RetryIdle
    /\ LiveIdle

NextWeights ==
    \E series \in SeriesSet :
        CallWeights(series) /\ UNCHANGED << simVars, riskVars, runVars, tradeVars, statVars, gatewayVars, retryVars, liveVars >>

SpecWeights == InitWeights /\ [][NextWeights]_vars

\* Backtester.run on price_dfs of up to MaxPanels panels.
InitRun ==
    /\ RunIdle
    /\ cfg = [fast_sma |-> 2, slow_sma |-> 3, stop_loss_pct |-> Rat(1, 4),
              take_profit_pct |-> Rat(1, 2)]
    /\ position_size = F(0)
    /\ equity = F(0)
    /\ SimIdle
    /\ rcfg \in RunRiskConfigs
    /\ RiskIdle
    /\ fill_pad \in BOOLEAN
    /\ WeightsIdle
    /\ TradesIdle
    /\ StatsIdle
    /\ GatewayIdle
    /\ RetryIdle
    /\ LiveIdle

NextRun ==
    \/ \E panel \in Panels : AddPanel(panel) /\ UNCHANGED << tradeVars, statVars, gatewayVars, retryVars, liveVars >>
    \/ RunStart /\ UNCHANGED << tradeVars, statVars, gatewayVars, retryVars, liveVars >>
    \/ SkipSymbol /\ UNCHANGED << tradeVars, statVars, gatewayVars, retryVars, liveVars >>
    \/ CallSimulate /\ UNCHANGED << tradeVars, statVars, gatewayVars, retryVars, liveVars >>
    \/ SimulateBar /\ UNCHANGED << tradeVars, statVars, gatewayVars, retryVars, liveVars >>
    \/ SimulateRaises /\ UNCHANGED << tradeVars, statVars, gatewayVars, retryVars, liveVars >>
    \/ SimulateReturns /\ UNCHANGED << tradeVars, statVars, gatewayVars, retryVars, liveVars >>
    \/ RunReturns /\ UNCHANGED << tradeVars, statVars, gatewayVars, retryVars, liveVars >>

SpecRun == InitRun /\ [][NextRun]_vars

\* infer_trades_from_position and compute_stats on frames of up to
\* MaxTradeBars rows, and on the frame of test_compute_stats_basic.
InitTrades ==
    /\ TradesIdle
    /\ cfg = [fast_sma |-> 2, slow_sma |-> 3, stop_loss_pct |-> Rat(1, 4),
              take_profit_pct |-> Rat(1, 2)]
    /\ position_size = Rat(1, 2)
    /\ equity = F(10000)
    /\ SimIdle
    /\ rcfg = [usd_daily_loss_cap |-> F(500), max_drawdown_pct |-> Rat(3, 100)]
    /\ RiskIdle
    /\ fill_pad = FALSE
    /\ WeightsIdle
    /\ RunIdle
    /\ StatsIdle
    /\ GatewayIdle
    /\ RetryIdle
    /\ LiveIdle

NextTrades ==
    \/ \E position \in PositionValues, pnl \in BarPnlValues :
            AnyRow(position, pnl) /\ UNCHANGED << statVars, gatewayVars, retryVars, liveVars >>
    \/ FixtureRow /\ UNCHANGED << statVars, gatewayVars, retryVars, liveVars >>

SpecTrades == InitTrades /\ [][NextTrades]_vars

\* compute_stats on series of up to MaxStatBars rows in each form, and on the
\* frame of test_compute_stats_basic.
InitStats ==
    /\ \/ \E start \in StartEquities, ppy \in PeriodsPerYear : StatsInit(start, ppy)
       \/ \E start \in FixtureStartEquities : StatsInit(start, FixturePeriodsPerYear)
    /\ cfg = [fast_sma |-> 2, slow_sma |-> 3, stop_loss_pct |-> Rat(1, 4),
              take_profit_pct |-> Rat(1, 2)]
    /\ position_size = Rat(1, 2)
    /\ equity = F(10000)
    /\ SimIdle
    /\ rcfg = [usd_daily_loss_cap |-> F(500), max_drawdown_pct |-> Rat(3, 100)]
    /\ RiskIdle
    /\ fill_pad = FALSE
    /\ WeightsIdle
    /\ RunIdle
    /\ TradesIdle
    /\ GatewayIdle
    /\ RetryIdle
    /\ LiveIdle

NextStats ==
    \/ \E position \in StatPositions, pnl \in StatPnls :
            AnyStatRow(position, pnl) /\ UNCHANGED << gatewayVars, retryVars, liveVars >>
    \/ FixtureStatRow /\ UNCHANGED << gatewayVars, retryVars, liveVars >>

SpecStats == InitStats /\ [][NextStats]_vars

\* build_args on the alerts of the input domain.
InitGateway ==
    /\ GatewayInit
    /\ cfg = [fast_sma |-> 2, slow_sma |-> 3, stop_loss_pct |-> Rat(1, 4),
              take_profit_pct |-> Rat(1, 2)]
    /\ position_size = Rat(1, 2)
    /\ equity = F(10000)
    /\ SimIdle
    /\ rcfg = [usd_daily_loss_cap |-> F(500), max_drawdown_pct |-> Rat(3, 100)]
    /\ RiskIdle
    /\ fill_pad = FALSE
    /\ WeightsIdle
    /\ RunIdle
    /\ TradesIdle
    /\ StatsIdle
    /\ RetryIdle
    /\ LiveIdle

NextGateway ==
    BuildArgs /\ UNCHANGED << simVars, riskVars, weightVars, runVars, tradeVars, statVars,
                              retryVars, liveVars >>

SpecGateway == InitGateway /\ [][NextGateway]_vars

\* with_retries with up to MaxRetries attempts.
InitRetry ==
    /\ \E n \in 0..MaxRetries, base \in BaseDelays : RetryInit(n, base)
    /\ cfg = [fast_sma |-> 2, slow_sma |-> 3, stop_loss_pct |-> Rat(1, 4),
              take_profit_pct |-> Rat(1, 2)]
    /\ position_size = Rat(1, 2)
    /\ equity = F(10000)
    /\ SimIdle
    /\ rcfg = [usd_daily_loss_cap |-> F(500), max_drawdown_pct |-> Rat(3, 100)]
    /\ RiskIdle
    /\ fill_pad = FALSE
    /\ WeightsIdle
    /\ RunIdle
    /\ TradesIdle
    /\ StatsIdle
    /\ GatewayIdle
    /\ LiveIdle

NextRetry ==
    \E outcome \in FnOutcomes :
        Attempt(outcome) /\ UNCHANGED << simVars, riskVars, weightVars, runVars, tradeVars,
                                         statVars, gatewayVars, liveVars >>

SpecRetry == InitRetry /\ [][NextRetry]_vars

\* cmd_live with the default Backtester and up to MaxLiveIters iterations.
InitLive ==
    /\ \E n \in 1..MaxLiveIters : LiveInit(n)
    /\ cfg = [fast_sma |-> 2, slow_sma |-> 3, stop_loss_pct |-> Rat(1, 4),
              take_profit_pct |-> Rat(1, 2)]
    /\ position_size = Rat(1, 2)
    /\ equity = F(10000)
    /\ SimIdle
    /\ rcfg = [usd_daily_loss_cap |-> F(500), max_drawdown_pct |-> Rat(3, 100)]
    /\ RiskIdle
    /\ fill_pad = FALSE
    /\ WeightsIdle
    /\ RunIdle
    /\ TradesIdle
    /\ StatsIdle
    /\ GatewayIdle
    /\ RetryIdle

NextLive ==
    \E pnl \in StepPnls :
        LiveStep(pnl) /\ UNCHANGED << simVars, riskVars, weightVars, runVars, tradeVars,
                                      statVars, gatewayVars, retryVars >>

SpecLive == InitLive /\ [][NextLive]_vars

====
